---- MODULE Spec2Model ----
(***************************************************************************)
(* Transaction/ledger and reward-settlement subsystem of the BigCoin piano *)
(* backend: the Mongoose models Game, Transaction and User, GameService,   *)
(* PaymentService and the payment/profile routes.                          *)
(*                                                                         *)
(* Every request handler is a process.  A handler works on in-memory       *)
(* copies of the documents it loaded; save() writes the modified paths of  *)
(* the copy back to the stored document.  One action is the code between   *)
(* two database operations, so the interleavings of the model are the      *)
(* interleavings of the awaits of the handlers.                            *)
(***************************************************************************)
EXTENDS Integers, Sequences, FiniteSets, TLC

\* ------------------------------------------------------------------ bounds
MaxReq == 3          \* requests started in one behaviour
MaxTime == 2         \* ticks of the wall clock
MaxBalTx == 3        \* transactions handed to getUserBalance
MaxTxOps == 4        \* method calls on one transaction document

Procs == {"p1", "p2"}

\* --------------------------------------------------------------- variables
VARIABLES
  user,    \* the stored User document (coins, statistics.experience, kyc.status,
           \* the account age in days, the location of the last login)
  game,    \* the stored Game document of the session
  txs,     \* the transactions collection, in insertion order
  pc,      \* pc[p]: where request p stands
  loc,     \* loc[p]: the local variables of request p (loaded documents, inputs)
  res,     \* res[p]: what the last request of p returned or threw
  now,     \* the wall clock (Date.now())
  nreq,    \* number of requests started
  hist,    \* history: how often each wallet effect was applied
  bal,     \* input and output of the getUserBalance check
  calc     \* the last fee computation or model method call, with its result

vars == <<user, game, txs, pc, loc, res, now, nreq, hist, bal, calc>>

\* ------------------------------------------------------------ small helpers
Max(a, b) == IF a >= b THEN a ELSE b
Min(a, b) == IF a <= b THEN a ELSE b

RECURSIVE SumSet(_, _)
SumSet(S, f) ==
  IF S = {} THEN 0
  ELSE LET x == CHOOSE y \in S : TRUE IN f[x] + SumSet(S \ {x}, f)

\* save() of an existing document: the modified paths of the local copy are
\* $set on the stored document, every other path keeps its stored value
SaveModified(stored, doc, dirty) ==
  [f \in DOMAIN stored |-> IF f \in dirty THEN doc[f] ELSE stored[f]]

NoLoc == [op |-> "none"]

\* ------------------------------------------------- in-memory document copies
\* A loaded document: doc is the copy the handler works on, base is its value
\* when it was loaded or last saved.  The modified paths are the paths whose
\* value differs from base.
Load(stored) == [doc |-> stored, base |-> stored]
Dirty(h) == {f \in DOMAIN h.doc : h.doc[f] # h.base[f]}
Saved(h) == [doc |-> h.doc, base |-> h.doc]

\* ================================================================ User model
KycStatuses == {"not_submitted", "pending", "verified", "rejected"}

MinWithdrawal == 10

\* schema validators of the wallet and experience paths (min: 0); save()
\* validates the modified paths and rejects the save when one is invalid
UserValid(h) ==
  \A f \in Dirty(h) \cap {"total", "available", "pending", "experience"} :
     h.doc[f] >= 0

StoreUser(stored, h) == SaveModified(stored, h.doc, Dirty(h))

addCoins(h, amount) ==
  [h EXCEPT !.doc.available = @ + amount, !.doc.total = @ + amount]

addExperience(h, exp) == [h EXCEPT !.doc.experience = @ + exp]

canWithdraw(u, amount) ==
  /\ u.kyc = "verified"
  /\ u.available >= amount
  /\ amount >= MinWithdrawal

\* PaymentService.compareKYCLevels
KycLevels == <<"none", "basic", "enhanced", "full">>
KycRank(l) == CHOOSE i \in 1..Len(KycLevels) : KycLevels[i] = l
compareKYCLevels(current, required) == KycRank(current) >= KycRank(required)

KycBasic == 100
KycEnhanced == 1000
KycFull == 10000

\* PaymentService.verifyKYCForTransaction
verifyKYCForTransaction(u, amount) ==
  LET requiredLevel == IF amount >= KycFull THEN "full"
                       ELSE IF amount >= KycEnhanced THEN "enhanced"
                       ELSE IF amount >= KycBasic THEN "basic"
                       ELSE "none"
      currentLevel == IF u.kyc = "verified" THEN "enhanced" ELSE "none"
  IN [allowed |-> compareKYCLevels(currentLevel, requiredLevel),
      currentLevel |-> currentLevel, requiredLevel |-> requiredLevel]

\* PaymentService.monitorSuspiciousActivity.  d.recent: the user's withdrawals
\* of the last 24 hours; d.count and d.sum: number and summed amount of the
\* user's transactions of the type (their average is compared as
\* amount * count > 5 * sum); d.ageDays: age of the account; d.history: the
\* location of loginHistory[0], "none" when the history is empty;
\* d.location: the location of the request, "none" when it has none;
\* d.fails: a database call of the assessment throws
NewAccountDays == 7
NewAccountAmount == 500
ReviewThreshold == 70
ApprovalThreshold == 50

\* the score is returned without the cap
monitorSuspiciousActivity_NoCap(d) ==
  LET s1 == IF d.recent > 3 THEN 30 ELSE 0
      s2 == IF d.count > 0 /\ d.amount * d.count > 5 * d.sum THEN 25 ELSE 0
      s3 == IF d.ageDays < NewAccountDays /\ d.amount > NewAccountAmount
            THEN 40 ELSE 0
      s4 == IF d.history # "none" /\ d.location # "none"
               /\ d.history # d.location THEN 20 ELSE 0
      riskScore == s1 + s2 + s3 + s4
  IN IF d.fails
       THEN [riskScore |-> 50, requiresReview |-> TRUE,
             requiresApproval |-> FALSE]
       ELSE [riskScore |-> riskScore,
             requiresReview |-> riskScore > ReviewThreshold,
             requiresApproval |-> riskScore > ApprovalThreshold]

monitorSuspiciousActivity(d) ==
  LET s1 == IF d.recent > 3 THEN 30 ELSE 0
      s2 == IF d.count > 0 /\ d.amount * d.count > 5 * d.sum THEN 25 ELSE 0
      s3 == IF d.ageDays < NewAccountDays /\ d.amount > NewAccountAmount
            THEN 40 ELSE 0
      s4 == IF d.history # "none" /\ d.location # "none"
               /\ d.history # d.location THEN 20 ELSE 0
      riskScore == s1 + s2 + s3 + s4
  IN IF d.fails
       THEN [riskScore |-> 50, requiresReview |-> TRUE,
             requiresApproval |-> FALSE]
       ELSE [riskScore |-> Min(100, riskScore),
             requiresReview |-> riskScore > ReviewThreshold,
             requiresApproval |-> riskScore > ApprovalThreshold]

\* ========================================================= Transaction model
TxTypes == {"game_reward", "withdrawal", "deposit", "bonus", "referral",
            "penalty", "refund", "fee", "purchase"}
TxStatuses == {"pending", "processing", "completed", "failed", "cancelled",
               "expired"}

WithdrawalFeePct == 5
DefaultMaxRetries == 3
RetryStep == 30
LargeWithdrawal == 1000
RiskSurcharge == 30
FlagThreshold == 70

\* new Transaction({...}): the schema defaults
NewTx(type, amount, status) ==
  [userId |-> "u1", type |-> type, amount |-> amount, status |-> status,
   method |-> "none", gateway |-> "none", gatewayTransactionId |-> 0,
   feePlatform |-> 0, feePayment |-> 0, feeWithdrawal |-> 0, feeTotal |-> 0,
   retryCount |-> 0, maxRetries |-> DefaultMaxRetries, nextRetry |-> 0,
   required |-> FALSE, verified |-> FALSE, riskScore |-> 0, flagged |-> FALSE,
   statusHistory |-> <<>>]

netAmount(t) == t.amount - t.feeTotal
isPending(t) == t.status \in {"pending", "processing"}
isFailed(t) == t.status \in {"failed", "cancelled", "expired"}
canRetry(t) == isFailed(t) /\ t.retryCount < t.maxRetries

canBeProcessed(t) ==
  /\ t.status = "pending"
  /\ ~t.flagged
  /\ (~t.required \/ t.verified)

\* the hook without its auto-flag step
PreSaveTx_NoAutoFlag(h, isNew) ==
  LET d0 == h.doc
      d1 == [d0 EXCEPT !.feeTotal = d0.feePlatform + d0.feePayment + d0.feeWithdrawal]
      d2 == IF d1.status # h.base.status /\ ~isNew
            THEN [d1 EXCEPT !.statusHistory =
                     Append(@, [from |-> "unknown", to |-> d1.status])]
            ELSE d1
      d3 == IF d2.type = "withdrawal" /\ d2.amount > LargeWithdrawal
            THEN [d2 EXCEPT !.required = TRUE,
                            !.riskScore = Min(100, @ + RiskSurcharge)]
            ELSE d2
  IN [h EXCEPT !.doc = d3]

\* pre('save') hook.  previousStatus is the un-awaited Query object, which has
\* no status property, so the pushed entry records from = 'unknown'.
PreSaveTx(h, isNew) ==
  LET d0 == h.doc
      d1 == [d0 EXCEPT !.feeTotal = d0.feePlatform + d0.feePayment + d0.feeWithdrawal]
      d2 == IF d1.status # h.base.status /\ ~isNew
            THEN [d1 EXCEPT !.statusHistory =
                     Append(@, [from |-> "unknown", to |-> d1.status])]
            ELSE d1
      d3 == IF d2.type = "withdrawal" /\ d2.amount > LargeWithdrawal
            THEN [d2 EXCEPT !.required = TRUE,
                            !.riskScore = Min(100, @ + RiskSurcharge)]
            ELSE d2
      d4 == IF d3.riskScore > FlagThreshold
            THEN [d3 EXCEPT !.flagged = TRUE]
            ELSE d3
  IN [h EXCEPT !.doc = d4]

\* the entries pushed on audit.statusHistory since the document was loaded or
\* last saved; save() sends them as $push, the other modified paths as $set
Pushed(h) ==
  SubSeq(h.doc.statusHistory, Len(h.base.statusHistory) + 1,
         Len(h.doc.statusHistory))

StoreTx(stored, h) ==
  [SaveModified(stored, h.doc, Dirty(h) \ {"statusHistory"})
     EXCEPT !.statusHistory = stored.statusHistory \o Pushed(h)]

\* addLog: push on audit.logs (not modelled) and save
addLog(h) == PreSaveTx(h, FALSE)

updateStatus(h, newStatus) ==
  addLog([h EXCEPT !.doc.status = newStatus,
                   !.doc.statusHistory =
                      Append(@, [from |-> h.doc.status, to |-> newStatus])])

markCompleted(h) == addLog([h EXCEPT !.doc.status = "completed"])

\* the retry is scheduled whatever the retry count
markFailed_NoCap(h, t) ==
  LET f == [h EXCEPT !.doc.status = "failed"]
      g == [f EXCEPT !.doc.retryCount = @ + 1,
                     !.doc.nextRetry = t + (f.doc.retryCount + 1) * RetryStep]
  IN addLog(g)

markFailed(h, t) ==
  LET f == [h EXCEPT !.doc.status = "failed"]
      g == IF canRetry(f.doc)
           THEN [f EXCEPT !.doc.retryCount = @ + 1,
                          !.doc.nextRetry = t + (f.doc.retryCount + 1) * RetryStep]
           ELSE f
  IN addLog(g)

createGameReward(amount) ==
  PreSaveTx(Load(NewTx("game_reward", amount, "completed")), TRUE).doc

createWithdrawal(amount, method) ==
  LET fee == (amount * WithdrawalFeePct) \div 100
      t == [NewTx("withdrawal", amount - fee, "pending") EXCEPT
              !.feeWithdrawal = fee, !.feeTotal = fee,
              !.method = method,
              !.gateway = IF method = "bank_transfer" THEN "epcm" ELSE "stripe",
              !.required = amount > 100]
  IN PreSaveTx(Load(t), TRUE).doc

\* Transaction.methods.calculateFees and PaymentService.calculateFees work on
\* amounts counted in thousandths of a unit here, so that the rates of the code
\* (0.05, 0.029, 0.025, 0.02, 0.01) and its constants 0.30 and 5 are integers
Rate(x, permille) == (x * permille) \div 1000
StripeMinFee == 300        \* 0.30
StripeRate == 29           \* 0.029
EpcmRate == 25             \* 0.025
PlatformRate == 20         \* 0.02
CryptoRate == 10           \* 0.01
PaypalRate == 25           \* 0.025
BankTransferFee == 5000    \* 5
PaymentGatewayEnum == {"stripe", "epcm", "manual"}

\* the method leaves fees.total at 0
calculateFees_TotalNotSet(t) ==
  LET w == IF t.type = "withdrawal"
           THEN Rate(t.amount, WithdrawalFeePct * 10) ELSE 0
      pay == IF t.type \in {"withdrawal", "deposit"} /\ t.gateway = "stripe"
               THEN Max(StripeMinFee, Rate(t.amount, StripeRate))
             ELSE IF t.type = "withdrawal" /\ t.gateway = "epcm"
               THEN Rate(t.amount, EpcmRate)
             ELSE 0
  IN [t EXCEPT !.feePlatform = 0, !.feePayment = pay, !.feeWithdrawal = w,
               !.feeTotal = 0]

\* transactionSchema.methods.calculateFees: this.metadata.fees = fees
calculateFees(t) ==
  LET w == IF t.type = "withdrawal"
           THEN Rate(t.amount, WithdrawalFeePct * 10) ELSE 0
      pay == IF t.type \in {"withdrawal", "deposit"} /\ t.gateway = "stripe"
               THEN Max(StripeMinFee, Rate(t.amount, StripeRate))
             ELSE IF t.type = "withdrawal" /\ t.gateway = "epcm"
               THEN Rate(t.amount, EpcmRate)
             ELSE 0
  IN [t EXCEPT !.feePlatform = 0, !.feePayment = pay, !.feeWithdrawal = w,
               !.feeTotal = 0 + pay + w]

\* PaymentService.calculateFees: the object it returns has no withdrawal field
serviceCalculateFees(amount, type, method) ==
  LET platform == IF type = "withdrawal" THEN Rate(amount, PlatformRate) ELSE 0
      payment == IF type = "withdrawal"
                   THEN CASE method = "bank_transfer" -> BankTransferFee
                          [] method = "crypto" -> Rate(amount, CryptoRate)
                          [] method = "paypal" -> Rate(amount, PaypalRate)
                          [] OTHER -> 0
                 ELSE IF type = "deposit"
                   THEN Max(StripeMinFee, Rate(amount, StripeRate))
                 ELSE 0
  IN [platform |-> platform, payment |-> payment, total |-> platform + payment]

\* metadata.fees of a transaction document
feesOf(t) ==
  [platform |-> t.feePlatform, payment |-> t.feePayment,
   withdrawal |-> t.feeWithdrawal, total |-> t.feeTotal]

CreditTypes == {"game_reward", "deposit", "bonus", "referral", "refund"}
DebitTypes == {"withdrawal", "penalty", "fee", "purchase"}

\* the pipeline matches the user only, whatever the status
getUserBalance_AnyStatus(ts, userId) ==
  LET matched == {i \in DOMAIN ts : ts[i].userId = userId}
      groups == {ts[i].type : i \in matched}
      amountOf == [i \in DOMAIN ts |-> ts[i].amount]
      total == [g \in groups |-> SumSet({i \in matched : ts[i].type = g}, amountOf)]
      signed == [g \in groups |->
                   IF g \in CreditTypes THEN total[g]
                   ELSE IF g \in DebitTypes THEN 0 - total[g]
                   ELSE 0]
  IN Max(0, SumSet(groups, signed))

\* the aggregation pipeline: $match userId and status completed, $group by
\* type with $sum of amount; then the forEach over the groups
getUserBalance(ts, userId) ==
  LET matched == {i \in DOMAIN ts : ts[i].userId = userId /\ ts[i].status = "completed"}
      groups == {ts[i].type : i \in matched}
      amountOf == [i \in DOMAIN ts |-> ts[i].amount]
      total == [g \in groups |-> SumSet({i \in matched : ts[i].type = g}, amountOf)]
      signed == [g \in groups |->
                   IF g \in CreditTypes THEN total[g]
                   ELSE IF g \in DebitTypes THEN 0 - total[g]
                   ELSE 0]
  IN Max(0, SumSet(groups, signed))


\* ================================================================ Game model
SessionStatuses == {"active", "completed", "abandoned", "paused"}

CoinPerPointDiv == 1000     \* COIN_PER_POINT = 0.001
ExperienceDiv == 100

Achievements == {"first_game", "perfect_combo", "accuracy_master",
                 "speed_demon", "endurance_player"}

AchievementCoins ==
  [a \in Achievements |->
     CASE a = "first_game" -> 50
       [] a = "perfect_combo" -> 200
       [] a = "accuracy_master" -> 150
       [] a = "speed_demon" -> 100
       [] a = "endurance_player" -> 75]

AchievementExperience ==
  [a \in Achievements |->
     CASE a = "first_game" -> 100
       [] a = "perfect_combo" -> 300
       [] a = "accuracy_master" -> 250
       [] a = "speed_demon" -> 200
       [] a = "endurance_player" -> 150]

NoTime == -1                \* a date that is not set

\* a session with a base score of totalScore and no notes played: the schema
\* defaults, and the rewards block as the pre('save') hook computes it.  The
\* session started one tick before the behaviour begins.
NewGame(status, totalScore, achievements) ==
  [status |-> status, totalScore |-> totalScore,
   coins |-> totalScore \div CoinPerPointDiv, bonusCoins |-> 0,
   experience |-> totalScore \div ExperienceDiv,
   achievements |-> achievements, claimed |-> FALSE, claimedAt |-> 0,
   baseScore |-> totalScore, comboBonus |-> 0, accuracyBonus |-> 0,
   speedBonus |-> 0, totalNotes |-> 0, correctNotes |-> 0,
   currentCombo |-> 0, maxCombo |-> 0, accuracy |-> 0,
   startTime |-> 0, endTime |-> NoTime, lastKeystroke |-> NoTime]

\* gameSchema.pre('save'): accuracy, total score, and the rewards when the
\* total score differs from the loaded one (isModified).  accuracy is kept as
\* the whole percentage; the code compares it with whole numbers only.
PreSaveGame(h) ==
  LET d0 == h.doc
      d1 == IF d0.totalNotes > 0
            THEN [d0 EXCEPT !.accuracy = (d0.correctNotes * 100) \div d0.totalNotes]
            ELSE d0
      d2 == [d1 EXCEPT !.totalScore = d1.baseScore + d1.comboBonus
                                      + d1.accuracyBonus + d1.speedBonus]
      d3 == IF d2.totalScore # h.base.totalScore
            THEN [d2 EXCEPT !.coins = d2.totalScore \div CoinPerPointDiv,
                            !.experience = d2.totalScore \div ExperienceDiv]
            ELSE d2
  IN [h EXCEPT !.doc = d3]

\* save() of a session: the modified paths are $set, the achievements pushed
\* since the load are $push-ed
StoreGame(stored, h) ==
  [SaveModified(stored, h.doc, Dirty(h) \ {"achievements"})
     EXCEPT !.achievements = stored.achievements
                               \cup (h.doc.achievements \ h.base.achievements)]

KeyAccuracies == {"perfect", "good", "miss"}

\* calculateKeystrokePoints with scoring.multiplier = 1 (difficulty easy,
\* speed 1.0): floor(basePoints * min(1 + combo * 0.1, 3))
calculateKeystrokePoints(accuracy, combo) ==
  LET basePoints == CASE accuracy = "perfect" -> 100
                      [] accuracy = "good" -> 70
                      [] OTHER -> 0
  IN (basePoints * Min(10 + combo, 30)) \div 10

\* updateBonusScores.  notesPerSecond is 0 here: session.duration is 0 until
\* the save that follows the end of the session, so speedBonus stays as it is.
updateBonusScores(d) ==
  [d EXCEPT !.comboBonus = d.maxCombo * 50,
            !.accuracyBonus =
               IF d.accuracy >= 95 THEN d.baseScore \div 2
               ELSE IF d.accuracy >= 90 THEN (d.baseScore * 3) \div 10
               ELSE IF d.accuracy >= 80 THEN d.baseScore \div 10
               ELSE @]

\* gameSchema.methods.addKeystroke at time t, with its save()
addKeystroke(h, accuracy, t) ==
  LET d0 == h.doc
      points == calculateKeystrokePoints(accuracy, d0.currentCombo)
      d1 == [d0 EXCEPT !.lastKeystroke = t, !.totalNotes = @ + 1]
      d2 == IF accuracy \in {"perfect", "good"}
            THEN [d1 EXCEPT !.correctNotes = @ + 1,
                            !.currentCombo = @ + 1,
                            !.maxCombo = Max(@, d1.currentCombo + 1)]
            ELSE [d1 EXCEPT !.currentCombo = 0]
      d3 == updateBonusScores([d2 EXCEPT !.baseScore = @ + points])
  IN PreSaveGame([h EXCEPT !.doc = d3])

\* checkAchievements.  speed_demon and endurance_player read notesPerSecond
\* and session.duration, which are still 0 when completeGame calls it.
checkAchievements(d) ==
  [d EXCEPT !.achievements =
     @ \cup (IF d.totalNotes > 0 THEN {"first_game"} ELSE {})
       \cup (IF d.maxCombo >= 100 THEN {"perfect_combo"} ELSE {})
       \cup (IF d.accuracy >= 98 THEN {"accuracy_master"} ELSE {})]

\* completeGame, pauseGame, resumeGame, abandonGame at time t, with their save()
completeGame(h, t) ==
  PreSaveGame([h EXCEPT !.doc = checkAchievements(
                 [h.doc EXCEPT !.status = "completed", !.endTime = t])])

pauseGame(h) == PreSaveGame([h EXCEPT !.doc.status = "paused"])

resumeGame(h) == PreSaveGame([h EXCEPT !.doc.status = "active"])

abandonGame(h, t) ==
  PreSaveGame([h EXCEPT !.doc.status = "abandoned", !.doc.endTime = t])

\* gameSchema.methods.claimRewards up to its save(): the reward data
rewardData(g) ==
  [coins |-> g.coins + g.bonusCoins + SumSet(g.achievements, AchievementCoins),
   experience |-> g.experience + SumSet(g.achievements, AchievementExperience)]

\* ============================================================== result values
Ok == [ok |-> TRUE, error |-> "none"]
Err(msg) == [ok |-> FALSE, error |-> msg]
NoRes == [ok |-> FALSE, error |-> "not run"]

NoTxHist == [credits |-> 0, hooks |-> 0, reserved |-> 0, refunded |-> 0, paid |-> 0]
NoHist == [rewardCredits |-> 0, tx |-> <<>>]

Finish(p, r) ==
  /\ pc' = [pc EXCEPT ![p] = "idle"]
  /\ loc' = [loc EXCEPT ![p] = NoLoc]
  /\ res' = [res EXCEPT ![p] = r]

Goto(p, label, l) ==
  /\ pc' = [pc EXCEPT ![p] = label]
  /\ loc' = [loc EXCEPT ![p] = l]
  /\ UNCHANGED res

\* ===================================================== GameService.claimRewards
\* a claim request arrives (POST /api/game/:sessionId/claim)
ClaimStart(p) ==
  /\ pc[p] = "idle"
  /\ nreq < MaxReq
  /\ nreq' = nreq + 1
  /\ pc' = [pc EXCEPT ![p] = "claim_find"]
  /\ loc' = [loc EXCEPT ![p] = [op |-> "claim"]]
  /\ res' = [res EXCEPT ![p] = NoRes]
  /\ UNCHANGED <<user, game, txs, now, hist, bal, calc>>

\* the claimed check folded into the query: a claimed session is "not found"
ClaimFind_ClaimedInQuery(p) ==
  /\ pc[p] = "claim_find"
  /\ IF game.status # "completed" \/ game.claimed
       THEN Finish(p, Err("Game session not found or not completed"))
     ELSE Goto(p, "claim_game", [op |-> "claim", game |-> Load(game)])
  /\ UNCHANGED <<user, game, txs, now, nreq, hist, bal, calc>>

\* Game.findOne({sessionId, userId, status: 'completed'}) and the two checks
ClaimFind(p) ==
  /\ pc[p] = "claim_find"
  /\ IF game.status # "completed"
       THEN Finish(p, Err("Game session not found or not completed"))
     ELSE IF game.claimed
       THEN Finish(p, Err("Rewards already claimed"))
     ELSE Goto(p, "claim_game", [op |-> "claim", game |-> Load(game)])
  /\ UNCHANGED <<user, game, txs, now, nreq, hist, bal, calc>>

\* game.claimRewards(): its own check, the totals, claimed/claimedAt, save()
ClaimGameSave(p) ==
  /\ pc[p] = "claim_game"
  /\ LET h == loc[p].game IN
       IF h.doc.claimed
         THEN /\ Finish(p, Err("Rewards already claimed"))
              /\ UNCHANGED game
       ELSE LET h1 == PreSaveGame([h EXCEPT !.doc.claimed = TRUE,
                                            !.doc.claimedAt = now]) IN
            /\ game' = StoreGame(game, h1)
            /\ Goto(p, "claim_user",
                    [op |-> "claim", game |-> Saved(h1), reward |-> rewardData(h.doc)])
  /\ UNCHANGED <<user, txs, now, nreq, hist, bal, calc>>

\* User.findById(userId)
ClaimFindUser(p) ==
  /\ pc[p] = "claim_user"
  /\ Goto(p, "claim_coins", [loc[p] EXCEPT !.op = "claim"] @@ [user |-> Load(user)])
  /\ UNCHANGED <<user, game, txs, now, nreq, hist, bal, calc>>

\* user.addCoins(rewardData.coins, 'game_reward')
ClaimAddCoins(p) ==
  /\ pc[p] = "claim_coins"
  /\ LET h == addCoins(loc[p].user, loc[p].reward.coins) IN
       /\ user' = StoreUser(user, h)
       /\ hist' = [hist EXCEPT !.rewardCredits = @ + 1]
       /\ Goto(p, "claim_exp", [loc[p] EXCEPT !.user = Saved(h)])
  /\ UNCHANGED <<game, txs, now, nreq, bal, calc>>

\* user.addExperience(rewardData.experience)
ClaimAddExperience(p) ==
  /\ pc[p] = "claim_exp"
  /\ LET h == addExperience(loc[p].user, loc[p].reward.experience) IN
       /\ user' = StoreUser(user, h)
       /\ Goto(p, "claim_tx", [loc[p] EXCEPT !.user = Saved(h)])
  /\ UNCHANGED <<game, txs, now, nreq, hist, bal, calc>>

\* Transaction.createGameReward(userId, game._id, rewardData.coins, ...)
ClaimCreateTx(p) ==
  /\ pc[p] = "claim_tx"
  /\ txs' = Append(txs, createGameReward(loc[p].reward.coins))
  /\ hist' = [hist EXCEPT !.tx = Append(@, NoTxHist)]
  /\ Finish(p, Ok)
  /\ UNCHANGED <<user, game, now, nreq, bal, calc>>

\* a database write of claimRewards is rejected (connection loss, validation
\* error): the await throws, the handler's catch rethrows, nothing after it runs
ClaimWriteFails(p) ==
  /\ pc[p] \in {"claim_game", "claim_coins", "claim_exp", "claim_tx"}
  /\ Finish(p, Err("write failed"))
  /\ UNCHANGED <<user, game, txs, now, nreq, hist, bal, calc>>

Tick ==
  /\ now < MaxTime + 1
  /\ now' = now + 1
  /\ UNCHANGED <<user, game, txs, pc, loc, res, nreq, hist, bal, calc>>

\* ------------------------------------------------------------ initial states
OldAccount == 30     \* days
NewUser(coins, kyc) ==
  [total |-> coins, available |-> coins, pending |-> 0, experience |-> 0,
   kyc |-> kyc, ageDays |-> OldAccount, lastLocation |-> "home"]

NoCalc == [op |-> "none"]
NoBal == [txs |-> <<>>, user |-> "u1", result |-> 0, done |-> FALSE]

InitProcs ==
  /\ pc = [p \in Procs |-> "idle"]
  /\ loc = [p \in Procs |-> NoLoc]
  /\ res = [p \in Procs |-> NoRes]
  /\ nreq = 0
  /\ now = 1
  /\ bal = NoBal
  /\ calc = NoCalc

ClaimScores == {2500, 10000}
ClaimAchievements == {{}, {"first_game"}, {"first_game", "accuracy_master"}}

\* a session that was played and left in any status, not yet claimed
InitClaim ==
  /\ InitProcs
  /\ user = NewUser(0, "verified")
  /\ txs = <<>>
  /\ hist = NoHist
  /\ \E st \in SessionStatuses, sc \in ClaimScores, ach \in ClaimAchievements :
       game = NewGame(st, sc, ach)

ClaimStep(p) ==
  \/ ClaimStart(p)
  \/ ClaimFind(p)
  \/ ClaimGameSave(p)
  \/ ClaimFindUser(p)
  \/ ClaimAddCoins(p)
  \/ ClaimAddExperience(p)
  \/ ClaimCreateTx(p)
  \/ ClaimWriteFails(p)

NextClaim == (\E p \in Procs : ClaimStep(p)) \/ Tick

SpecClaim == InitClaim /\ [][NextClaim]_vars

\* ============================================ PaymentService.processWithdrawal
PaymentMethodEnum == {"stripe", "epcm", "bank_transfer", "crypto", "paypal"}
WithdrawalMethods == {"bank_transfer", "crypto", "paypal"}

InitCoins == 160
\* the amounts and methods of the requests: -5 and 5 fail the route's amount
\* checks, 120 makes createWithdrawal set verification.required, stripe is in
\* the schema's enum but not in the route's validMethods
WdAmounts == {-5, 5, 40, 120}
WdMethods == {"bank_transfer", "paypal", "stripe"}

\* POST /withdraw: the synchronous validation of the body
RouteValidation(amount, method) ==
  IF amount = 0
    THEN Err("Amount, withdrawal method, and account information are required")
  ELSE IF amount <= 0 THEN Err("Amount must be greater than 0")
  ELSE IF amount < MinWithdrawal THEN Err("Minimum withdrawal amount is 10 BigCoin")
  ELSE IF method \notin WithdrawalMethods THEN Err("Invalid withdrawal method")
  ELSE Ok

\* a request with an amount, a method and a location (the x-user-location
\* header or the ip) out of the given sets
WdRequest(p, amounts, methods, locations) ==
  /\ pc[p] = "idle"
  /\ nreq < MaxReq
  /\ nreq' = nreq + 1
  /\ \E a \in amounts, m \in methods, l \in locations :
       IF RouteValidation(a, m) = Ok
         THEN /\ loc' = [loc EXCEPT ![p] = [op |-> "withdraw", amount |-> a,
                                            method |-> m, location |-> l]]
              /\ pc' = [pc EXCEPT ![p] = "wd_route"]
              /\ res' = [res EXCEPT ![p] = NoRes]
         ELSE /\ res' = [res EXCEPT ![p] = RouteValidation(a, m)]
              /\ UNCHANGED <<pc, loc>>
  /\ UNCHANGED <<user, game, txs, now, hist, bal, calc>>

WdLocations == {"home"}

WdStart(p) == WdRequest(p, WdAmounts, WdMethods, WdLocations)

\* the route lets every request through to the service
WdRoute_NoBalanceCheck(p) ==
  /\ pc[p] = "wd_route"
  /\ Goto(p, "wd_kyc", loc[p])
  /\ UNCHANGED <<user, game, txs, now, nreq, hist, bal, calc>>

\* POST /withdraw: Transaction.getUserBalance and currentBalance < amount
WdRoute(p) ==
  /\ pc[p] = "wd_route"
  /\ IF getUserBalance(txs, "u1") < loc[p].amount
       THEN Finish(p, Err("Insufficient balance"))
       ELSE Goto(p, "wd_kyc", loc[p])
  /\ UNCHANGED <<user, game, txs, now, nreq, hist, bal, calc>>

KycRefusal(k) ==
  [ok |-> FALSE, error |-> "KYC verification required for this amount",
   requiredLevel |-> k.requiredLevel, currentLevel |-> k.currentLevel]

\* POST /withdraw: PaymentService.verifyKYCForTransaction and the 403 answer
WdKyc(p) ==
  /\ pc[p] = "wd_kyc"
  /\ LET k == verifyKYCForTransaction(user, loc[p].amount) IN
       IF ~k.allowed
         THEN Finish(p, KycRefusal(k))
         ELSE Goto(p, "wd_risk", loc[p])
  /\ UNCHANGED <<user, game, txs, now, nreq, hist, bal, calc>>

\* what monitorSuspiciousActivity reads for a withdrawal request.  A behaviour
\* spans less than a day, so the withdrawals of the last 24 hours are the
\* withdrawals created in it; the transactions of the initial state are older.
Withdrawals(l) == {i \in DOMAIN l : l[i].type = "withdrawal"}
RiskInput(u, l, amount, location) ==
  [fails |-> FALSE,
   recent |-> Cardinality(Withdrawals(l)),
   count |-> Cardinality(Withdrawals(l)),
   sum |-> SumSet(Withdrawals(l), [i \in Withdrawals(l) |-> l[i].amount]),
   amount |-> amount, ageDays |-> u.ageDays,
   history |-> u.lastLocation, location |-> location]

\* POST /withdraw: PaymentService.monitorSuspiciousActivity and the 202 answer
WdRisk(p) ==
  /\ pc[p] = "wd_risk"
  /\ LET r == monitorSuspiciousActivity(
                RiskInput(user, txs, loc[p].amount, loc[p].location)) IN
       IF r.requiresReview
         THEN Finish(p, Err("Withdrawal requires manual review"))
         ELSE Goto(p, "wd_user", loc[p])
  /\ UNCHANGED <<user, game, txs, now, nreq, hist, bal, calc>>

\* User.findById and user.canWithdraw(amount)
WdFindUser(p) ==
  /\ pc[p] = "wd_user"
  /\ IF ~canWithdraw(user, loc[p].amount)
       THEN Finish(p, Err("Withdrawal not allowed"))
       ELSE Goto(p, "wd_balance", loc[p] @@ [user |-> Load(user)])
  /\ UNCHANGED <<user, game, txs, now, nreq, hist, bal, calc>>

\* Transaction.getUserBalance(userId) and the sufficient-balance check
WdBalance(p) ==
  /\ pc[p] = "wd_balance"
  /\ IF getUserBalance(txs, "u1") < loc[p].amount
       THEN Finish(p, Err("Insufficient balance"))
       ELSE Goto(p, "wd_create", loc[p])
  /\ UNCHANGED <<user, game, txs, now, nreq, hist, bal, calc>>

\* Transaction.createWithdrawal: the insert (the schema rejects a method that
\* is not in the paymentMethod enum)
WdCreate(p) ==
  /\ pc[p] = "wd_create"
  /\ IF loc[p].method \notin PaymentMethodEnum
       THEN /\ Finish(p, Err("Transaction validation failed"))
            /\ UNCHANGED <<txs, hist>>
       ELSE LET t == createWithdrawal(loc[p].amount, loc[p].method) IN
            /\ txs' = Append(txs, t)
            /\ hist' = [hist EXCEPT !.tx = Append(@, NoTxHist)]
            /\ Goto(p, "wd_deduct", loc[p] @@ [tx |-> Len(txs) + 1, t |-> Load(t)])
  /\ UNCHANGED <<user, game, now, nreq, bal, calc>>

\* user.deductCoins(amount): check on the loaded copy, available -= amount, save
WdDeduct(p) ==
  /\ pc[p] = "wd_deduct"
  /\ LET h == [loc[p].user EXCEPT !.doc.available = @ - loc[p].amount] IN
       IF loc[p].user.doc.available < loc[p].amount
         THEN /\ Finish(p, Err("Insufficient coins"))
              /\ UNCHANGED <<user, hist>>
       ELSE IF ~UserValid(h)
         THEN /\ Finish(p, Err("User validation failed"))
              /\ UNCHANGED <<user, hist>>
       ELSE /\ user' = StoreUser(user, h)
            /\ hist' = [hist EXCEPT !.tx[loc[p].tx].reserved = @ + loc[p].amount]
            /\ Goto(p, "wd_pending", [loc[p] EXCEPT !.user = Saved(h)])
  /\ UNCHANGED <<game, txs, now, nreq, bal, calc>>

\* user.coins.pending += amount; user.save()
WdPending(p) ==
  /\ pc[p] = "wd_pending"
  /\ LET h == [loc[p].user EXCEPT !.doc.pending = @ + loc[p].amount] IN
       IF ~UserValid(h)
         THEN /\ Finish(p, Err("User validation failed"))
              /\ UNCHANGED user
       ELSE /\ user' = StoreUser(user, h)
            /\ Goto(p, "wd_gateway", [loc[p] EXCEPT !.user = Saved(h)])
  /\ UNCHANGED <<game, txs, now, nreq, hist, bal, calc>>

\* the switch over the method, the gateway's answer, and markCompleted or
\* markFailed on the handler's copy of the transaction.  processBankTransfer
\* and processCryptoWithdrawal convert every error into success: false;
\* processPayPalWithdrawal always answers success.
WdGateway(p) ==
  /\ pc[p] = "wd_gateway"
  /\ IF loc[p].method \notin WithdrawalMethods
       THEN /\ Finish(p, Err("Unsupported withdrawal method"))
            /\ UNCHANGED txs
       ELSE \E success \in (IF loc[p].method = "paypal" THEN {TRUE} ELSE BOOLEAN) :
            LET h == IF success THEN markCompleted(loc[p].t)
                                ELSE markFailed(loc[p].t, now) IN
            /\ txs' = [txs EXCEPT ![loc[p].tx] = StoreTx(@, h)]
            /\ Goto(p, "wd_settle",
                    [loc[p] EXCEPT !.t = Saved(h)] @@ [success |-> success])
  /\ UNCHANGED <<user, game, now, nreq, hist, bal, calc>>

\* success: pending -= amount; failure: available += amount, pending -= amount
WdSettle(p) ==
  /\ pc[p] = "wd_settle"
  /\ LET a == loc[p].amount
         h == IF loc[p].success
              THEN [loc[p].user EXCEPT !.doc.pending = @ - a]
              ELSE [loc[p].user EXCEPT !.doc.available = @ + a,
                                       !.doc.pending = @ - a] IN
       IF ~UserValid(h)
         THEN /\ Finish(p, Err("User validation failed"))
              /\ UNCHANGED <<user, hist>>
       ELSE /\ user' = StoreUser(user, h)
            /\ hist' = IF loc[p].success
                       THEN [hist EXCEPT !.tx[loc[p].tx].paid = @ + a]
                       ELSE [hist EXCEPT !.tx[loc[p].tx].refunded = @ + a]
            /\ Finish(p, [ok |-> loc[p].success,
                          error |-> IF loc[p].success THEN "none" ELSE "gateway"])
  /\ UNCHANGED <<game, txs, now, nreq, bal, calc>>

\* the handler is interrupted between the reservation and the gateway's answer
\* (an awaited write rejects, or the process stops): the catch rethrows, the
\* transaction stays pending and the amount stays in coins.pending
WdInterrupted(p) ==
  /\ pc[p] = "wd_gateway"
  /\ Finish(p, Err("Withdrawal failed"))
  /\ UNCHANGED <<user, game, txs, now, nreq, hist, bal, calc>>

WithdrawStep(p) ==
  \/ WdStart(p)
  \/ WdRoute(p)
  \/ WdKyc(p)
  \/ WdRisk(p)
  \/ WdFindUser(p)
  \/ WdBalance(p)
  \/ WdCreate(p)
  \/ WdDeduct(p)
  \/ WdPending(p)
  \/ WdGateway(p)
  \/ WdSettle(p)

\* a verified user whose wallet and ledger both hold InitCoins (one completed
\* bonus transaction), no session
InitWallet ==
  /\ InitProcs
  /\ user = NewUser(InitCoins, "verified")
  /\ game = NewGame("active", 0, {})
  /\ txs = << NewTx("bonus", InitCoins, "completed") >>
  /\ hist = [rewardCredits |-> 0, tx |-> << NoTxHist >>]

NextWithdraw == \E p \in Procs : WithdrawStep(p)

SpecWithdraw == InitWallet /\ [][NextWithdraw]_vars

\* PaymentService.processWithdrawal called with any arguments, without the
\* route in front of it
DirectCall(p, amounts, methods) ==
  /\ pc[p] = "idle"
  /\ nreq < MaxReq
  /\ nreq' = nreq + 1
  /\ \E a \in amounts, m \in methods :
       loc' = [loc EXCEPT ![p] = [op |-> "withdraw", amount |-> a, method |-> m]]
  /\ pc' = [pc EXCEPT ![p] = "wd_user"]
  /\ res' = [res EXCEPT ![p] = NoRes]
  /\ UNCHANGED <<user, game, txs, now, hist, bal, calc>>

WdDirect(p) == DirectCall(p, WdAmounts, WdMethods)

NextDirect ==
  \E p \in {"p1"} :
    \/ WdDirect(p)
    \/ WdFindUser(p)
    \/ WdBalance(p)
    \/ WdCreate(p)
    \/ WdDeduct(p)
    \/ WdPending(p)
    \/ WdGateway(p)
    \/ WdSettle(p)

SpecDirect == InitWallet /\ [][NextDirect]_vars

\* ------------------------------------------- withdrawals of large amounts
\* users with a wallet of GateCoins, verified or not, with a new or an old
\* account, asking for amounts on both sides of the KYC and risk thresholds
GateCoins == 12000
GateAmounts == {50, 120, 2000, 10000}
GateMethods == {"bank_transfer"}
GateLocations == {"home", "away"}
GateAges == {3, OldAccount}
GateKyc == {"verified", "not_submitted"}

InitGate ==
  /\ InitProcs
  /\ \E k \in GateKyc, a \in GateAges :
       user = [NewUser(GateCoins, k) EXCEPT !.ageDays = a]
  /\ game = NewGame("active", 0, {})
  /\ txs = << NewTx("bonus", GateCoins, "completed") >>
  /\ hist = [rewardCredits |-> 0, tx |-> << NoTxHist >>]

GtStart(p) == WdRequest(p, GateAmounts, GateMethods, GateLocations)

GtDirect(p) == DirectCall(p, GateAmounts, GateMethods)

ServiceStep(p) ==
  \/ WdFindUser(p)
  \/ WdBalance(p)
  \/ WdCreate(p)
  \/ WdDeduct(p)
  \/ WdPending(p)
  \/ WdGateway(p)
  \/ WdSettle(p)

\* requests through POST /withdraw
NextGate ==
  \E p \in {"p1"} :
    \/ GtStart(p)
    \/ WdRoute(p)
    \/ WdKyc(p)
    \/ WdRisk(p)
    \/ ServiceStep(p)

SpecGate == InitGate /\ [][NextGate]_vars

\* calls of PaymentService.processWithdrawal without the route
NextGateDirect == \E p \in {"p1"} : GtDirect(p) \/ ServiceStep(p)

SpecGateDirect == InitGate /\ [][NextGateDirect]_vars

\* ============================================= PaymentService.approveWithdrawal
PayoutId(i) == 100 + i      \* the id the gateway gives the payout of transaction i

ApStart(p) ==
  /\ pc[p] = "idle"
  /\ nreq < MaxReq
  /\ nreq' = nreq + 1
  /\ \E i \in DOMAIN txs : loc' = [loc EXCEPT ![p] = [op |-> "approve", tx |-> i]]
  /\ pc' = [pc EXCEPT ![p] = "ap_find"]
  /\ res' = [res EXCEPT ![p] = NoRes]
  /\ UNCHANGED <<user, game, txs, now, hist, bal, calc>>

\* Transaction.findOne({transactionId, type: 'withdrawal', status: 'pending'})
ApFind(p) ==
  /\ pc[p] = "ap_find"
  /\ LET t == txs[loc[p].tx] IN
       IF t.type = "withdrawal" /\ t.status = "pending"
         THEN Goto(p, "ap_processing", loc[p] @@ [t |-> Load(t)])
         ELSE Finish(p, Err("Transaction not found or already processed"))
  /\ UNCHANGED <<user, game, txs, now, nreq, hist, bal, calc>>

\* processPayment: status = 'processing'; addLog('payment_started')
ApProcessing(p) ==
  /\ pc[p] = "ap_processing"
  /\ LET h == addLog([loc[p].t EXCEPT !.doc.status = "processing"]) IN
       /\ txs' = [txs EXCEPT ![loc[p].tx] = StoreTx(@, h)]
       /\ Goto(p, "ap_gateway", [loc[p] EXCEPT !.t = Saved(h)])
  /\ UNCHANGED <<user, game, now, nreq, hist, bal, calc>>

\* processPayment: the switch over payment.gateway, the gateway's answer, and
\* markCompleted (with the gateway transaction id) or markFailed
ApGateway(p) ==
  /\ pc[p] = "ap_gateway"
  /\ IF loc[p].t.doc.gateway \notin {"stripe", "epcm"}
       THEN LET h == markFailed(loc[p].t, now) IN
            /\ txs' = [txs EXCEPT ![loc[p].tx] = StoreTx(@, h)]
            /\ Finish(p, Err("Unsupported payment gateway"))
       ELSE \E success \in BOOLEAN :
            LET h == IF success
                     THEN markCompleted([loc[p].t EXCEPT
                            !.doc.gatewayTransactionId = PayoutId(loc[p].tx)])
                     ELSE markFailed(loc[p].t, now) IN
            /\ txs' = [txs EXCEPT ![loc[p].tx] = StoreTx(@, h)]
            /\ Goto(p, "ap_log",
                    [loc[p] EXCEPT !.t = Saved(h)] @@ [success |-> success])
  /\ UNCHANGED <<user, game, now, nreq, hist, bal, calc>>

\* transaction.addLog('admin_approval', ...) and the return value
ApLog(p) ==
  /\ pc[p] = "ap_log"
  /\ LET h == addLog(loc[p].t) IN
       txs' = [txs EXCEPT ![loc[p].tx] = StoreTx(@, h)]
  /\ Finish(p, [ok |-> loc[p].success,
                error |-> IF loc[p].success THEN "none" ELSE "gateway"])
  /\ UNCHANGED <<user, game, now, nreq, hist, bal, calc>>

ApproveStep(p) ==
  \/ ApStart(p)
  \/ ApFind(p)
  \/ ApProcessing(p)
  \/ ApGateway(p)
  \/ ApLog(p)

\* ============================================== PaymentService.rejectWithdrawal
RjStart(p) ==
  /\ pc[p] = "idle"
  /\ nreq < MaxReq
  /\ nreq' = nreq + 1
  /\ \E i \in DOMAIN txs : loc' = [loc EXCEPT ![p] = [op |-> "reject", tx |-> i]]
  /\ pc' = [pc EXCEPT ![p] = "rj_find"]
  /\ res' = [res EXCEPT ![p] = NoRes]
  /\ UNCHANGED <<user, game, txs, now, hist, bal, calc>>

RjFind(p) ==
  /\ pc[p] = "rj_find"
  /\ LET t == txs[loc[p].tx] IN
       IF t.type = "withdrawal" /\ t.status = "pending"
         THEN Goto(p, "rj_cancel", loc[p] @@ [t |-> Load(t)])
         ELSE Finish(p, Err("Transaction not found or already processed"))
  /\ UNCHANGED <<user, game, txs, now, nreq, hist, bal, calc>>

\* transaction.updateStatus('cancelled', reason, adminId)
RjCancel(p) ==
  /\ pc[p] = "rj_cancel"
  /\ LET h == updateStatus(loc[p].t, "cancelled") IN
       /\ txs' = [txs EXCEPT ![loc[p].tx] = StoreTx(@, h)]
       /\ Goto(p, "rj_user", [loc[p] EXCEPT !.t = Saved(h)])
  /\ UNCHANGED <<user, game, now, nreq, hist, bal, calc>>

RjFindUser(p) ==
  /\ pc[p] = "rj_user"
  /\ Goto(p, "rj_refund", loc[p] @@ [user |-> Load(user)])
  /\ UNCHANGED <<user, game, txs, now, nreq, hist, bal, calc>>

\* available += transaction.amount; pending -= transaction.amount; save
RjRefund(p) ==
  /\ pc[p] = "rj_refund"
  /\ LET a == loc[p].t.doc.amount
         h == [loc[p].user EXCEPT !.doc.available = @ + a, !.doc.pending = @ - a] IN
       IF ~UserValid(h)
         THEN /\ Finish(p, Err("User validation failed"))
              /\ UNCHANGED <<user, hist>>
       ELSE /\ user' = StoreUser(user, h)
            /\ hist' = [hist EXCEPT !.tx[loc[p].tx].refunded = @ + a]
            /\ Finish(p, Ok)
  /\ UNCHANGED <<game, txs, now, nreq, bal, calc>>

RejectStep(p) ==
  \/ RjStart(p)
  \/ RjFind(p)
  \/ RjCancel(p)
  \/ RjFindUser(p)
  \/ RjRefund(p)

\* ========================================================= GET /payment/balance
BlStart(p) ==
  /\ pc[p] = "idle"
  /\ nreq < MaxReq
  /\ nreq' = nreq + 1
  /\ loc' = [loc EXCEPT ![p] = [op |-> "balance"]]
  /\ pc' = [pc EXCEPT ![p] = "bl_user"]
  /\ res' = [res EXCEPT ![p] = NoRes]
  /\ UNCHANGED <<user, game, txs, now, hist, bal, calc>>

BlFindUser(p) ==
  /\ pc[p] = "bl_user"
  /\ Goto(p, "bl_balance", loc[p] @@ [user |-> Load(user)])
  /\ UNCHANGED <<user, game, txs, now, nreq, hist, bal, calc>>

\* Transaction.getUserBalance and the comparison with user.coins.available
BlBalance(p) ==
  /\ pc[p] = "bl_balance"
  /\ LET calculatedBalance == getUserBalance(txs, "u1") IN
       IF calculatedBalance # loc[p].user.doc.available
         THEN Goto(p, "bl_sync",
                   [loc[p] EXCEPT !.user.doc.available = calculatedBalance])
         ELSE Goto(p, "bl_pending", loc[p])
  /\ UNCHANGED <<user, game, txs, now, nreq, hist, bal, calc>>

\* user.coins.available = calculatedBalance; user.save()
BlSync(p) ==
  /\ pc[p] = "bl_sync"
  /\ IF ~UserValid(loc[p].user)
       THEN /\ Finish(p, Err("Error retrieving balance"))
            /\ UNCHANGED user
       ELSE /\ user' = StoreUser(user, loc[p].user)
            /\ Goto(p, "bl_pending", [loc[p] EXCEPT !.user = Saved(loc[p].user)])
  /\ UNCHANGED <<game, txs, now, nreq, hist, bal, calc>>

\* Transaction.find(pending withdrawals) and the response
BlPending(p) ==
  /\ pc[p] = "bl_pending"
  /\ Finish(p, Ok)
  /\ UNCHANGED <<user, game, txs, now, nreq, hist, bal, calc>>

BalanceStep(p) ==
  \/ BlStart(p)
  \/ BlFindUser(p)
  \/ BlBalance(p)
  \/ BlSync(p)
  \/ BlPending(p)

\* ================================================ PaymentService.processDeposit
CoinsPerUnit == 100     \* 1 USD = 100 BigCoin
DpAmounts == {1}
IntentStatuses == {"succeeded", "requires_action", "requires_payment_method"}

\* the id of the payment intent of the n-th request
IntentId(n) == n

DpStart(p) ==
  /\ pc[p] = "idle"
  /\ nreq < MaxReq
  /\ nreq' = nreq + 1
  /\ \E a \in DpAmounts :
       loc' = [loc EXCEPT ![p] = [op |-> "deposit", amount |-> a,
                                  intent |-> IntentId(nreq + 1)]]
  /\ pc' = [pc EXCEPT ![p] = "dp_user"]
  /\ res' = [res EXCEPT ![p] = NoRes]
  /\ UNCHANGED <<user, game, txs, now, hist, bal, calc>>

DpFindUser(p) ==
  /\ pc[p] = "dp_user"
  /\ Goto(p, "dp_intent", loc[p] @@ [user |-> Load(user)])
  /\ UNCHANGED <<user, game, txs, now, nreq, hist, bal, calc>>

\* stripe.paymentIntents.create({confirm: true}): it throws, or answers an
\* intent in some status
DpIntent(p) ==
  /\ pc[p] = "dp_intent"
  /\ \/ Finish(p, Err("Deposit failed"))
     \/ \E st \in IntentStatuses : Goto(p, "dp_save", loc[p] @@ [status |-> st])
  /\ UNCHANGED <<user, game, txs, now, nreq, hist, bal, calc>>

\* new Transaction({type: 'deposit', status: 'processing', ...}).save(), and
\* the return when the intent has not succeeded
DpSave(p) ==
  /\ pc[p] = "dp_save"
  /\ LET t == PreSaveTx(Load([NewTx("deposit", loc[p].amount, "processing") EXCEPT
                                !.gateway = "stripe",
                                !.gatewayTransactionId = loc[p].intent,
                                !.method = "card"]), TRUE).doc IN
       /\ txs' = Append(txs, t)
       /\ hist' = [hist EXCEPT !.tx = Append(@, NoTxHist)]
       /\ IF loc[p].status = "succeeded"
            THEN Goto(p, "dp_complete", loc[p] @@ [tx |-> Len(txs) + 1, t |-> Load(t)])
            ELSE Finish(p, [ok |-> FALSE, error |-> "Payment failed"])
  /\ UNCHANGED <<user, game, now, nreq, bal, calc>>

\* transaction.markCompleted()
DpComplete(p) ==
  /\ pc[p] = "dp_complete"
  /\ LET h == markCompleted(loc[p].t) IN
       /\ txs' = [txs EXCEPT ![loc[p].tx] = StoreTx(@, h)]
       /\ Goto(p, "dp_credit", [loc[p] EXCEPT !.t = Saved(h)])
  /\ UNCHANGED <<user, game, now, nreq, hist, bal, calc>>

\* user.addCoins(amount * 100, 'deposit')
DpCredit(p) ==
  /\ pc[p] = "dp_credit"
  /\ LET h == addCoins(loc[p].user, loc[p].amount * CoinsPerUnit) IN
       /\ user' = StoreUser(user, h)
       /\ hist' = [hist EXCEPT !.tx[loc[p].tx].credits = @ + 1]
  /\ Finish(p, Ok)
  /\ UNCHANGED <<game, txs, now, nreq, bal, calc>>

DepositStep(p) ==
  \/ DpStart(p)
  \/ DpFindUser(p)
  \/ DpIntent(p)
  \/ DpSave(p)
  \/ DpComplete(p)
  \/ DpCredit(p)

\* ========================================== PaymentService.handleStripeWebhook
\* the gateway ids the ledger knows
GatewayIds == {txs[i].gatewayTransactionId : i \in DOMAIN txs} \ {0}

\* Transaction.findOne({'payment.gatewayTransactionId': id}); 0 when none
FindByGatewayId(id) ==
  IF \E i \in DOMAIN txs : txs[i].gatewayTransactionId = id
    THEN CHOOSE i \in DOMAIN txs :
           /\ txs[i].gatewayTransactionId = id
           /\ \A j \in DOMAIN txs : txs[j].gatewayTransactionId = id => i <= j
    ELSE 0

\* a payment_intent.succeeded event is delivered
HsStart(p) ==
  /\ pc[p] = "idle"
  /\ nreq < MaxReq
  /\ nreq' = nreq + 1
  /\ \E id \in GatewayIds :
       loc' = [loc EXCEPT ![p] = [op |-> "hook_success", intent |-> id]]
  /\ pc' = [pc EXCEPT ![p] = "hs_find"]
  /\ res' = [res EXCEPT ![p] = NoRes]
  /\ UNCHANGED <<user, game, txs, now, hist, bal, calc>>

\* the handler accepts every transaction it finds
HsFind_NoStatusCheck(p) ==
  /\ pc[p] = "hs_find"
  /\ LET i == FindByGatewayId(loc[p].intent) IN
       IF i # 0
         THEN /\ Goto(p, "hs_complete", loc[p] @@ [tx |-> i, t |-> Load(txs[i])])
              /\ hist' = [hist EXCEPT !.tx[i].hooks = @ + 1]
         ELSE /\ Finish(p, Ok)
              /\ UNCHANGED hist
  /\ UNCHANGED <<user, game, txs, now, nreq, bal, calc>>

\* the handler accepts every transaction that is not completed yet
HsFind_NotCompleted(p) ==
  /\ pc[p] = "hs_find"
  /\ LET i == FindByGatewayId(loc[p].intent) IN
       IF i # 0 /\ txs[i].status # "completed"
         THEN /\ Goto(p, "hs_complete", loc[p] @@ [tx |-> i, t |-> Load(txs[i])])
              /\ hist' = [hist EXCEPT !.tx[i].hooks = @ + 1]
         ELSE /\ Finish(p, Ok)
              /\ hist' = IF i # 0 THEN [hist EXCEPT !.tx[i].hooks = @ + 1] ELSE hist
  /\ UNCHANGED <<user, game, txs, now, nreq, bal, calc>>

\* handlePaymentSuccess: findOne and the check
\* transaction && transaction.status === 'processing'
HsFind(p) ==
  /\ pc[p] = "hs_find"
  /\ LET i == FindByGatewayId(loc[p].intent) IN
       IF i # 0 /\ txs[i].status = "processing"
         THEN /\ Goto(p, "hs_complete", loc[p] @@ [tx |-> i, t |-> Load(txs[i])])
              /\ hist' = [hist EXCEPT !.tx[i].hooks = @ + 1]
         ELSE /\ Finish(p, Ok)
              /\ hist' = IF i # 0 THEN [hist EXCEPT !.tx[i].hooks = @ + 1] ELSE hist
  /\ UNCHANGED <<user, game, txs, now, nreq, bal, calc>>

\* transaction.markCompleted(paymentIntent)
HsComplete(p) ==
  /\ pc[p] = "hs_complete"
  /\ LET h == markCompleted(loc[p].t) IN
       /\ txs' = [txs EXCEPT ![loc[p].tx] = StoreTx(@, h)]
       /\ IF h.doc.type = "deposit"
            THEN Goto(p, "hs_user", [loc[p] EXCEPT !.t = Saved(h)])
            ELSE Finish(p, Ok)
  /\ UNCHANGED <<user, game, now, nreq, hist, bal, calc>>

HsFindUser(p) ==
  /\ pc[p] = "hs_user"
  /\ Goto(p, "hs_credit", loc[p] @@ [user |-> Load(user)])
  /\ UNCHANGED <<user, game, txs, now, nreq, hist, bal, calc>>

\* user.addCoins(transaction.amount * 100, 'deposit')
HsCredit(p) ==
  /\ pc[p] = "hs_credit"
  /\ LET h == addCoins(loc[p].user, loc[p].t.doc.amount * CoinsPerUnit) IN
       /\ user' = StoreUser(user, h)
       /\ hist' = [hist EXCEPT !.tx[loc[p].tx].credits = @ + 1]
  /\ Finish(p, Ok)
  /\ UNCHANGED <<game, txs, now, nreq, bal, calc>>

HookSuccessStep(p) ==
  \/ HsStart(p)
  \/ HsFind(p)
  \/ HsComplete(p)
  \/ HsFindUser(p)
  \/ HsCredit(p)

\* a payment_intent.payment_failed event is delivered
HfStart(p) ==
  /\ pc[p] = "idle"
  /\ nreq < MaxReq
  /\ nreq' = nreq + 1
  /\ \E id \in GatewayIds :
       loc' = [loc EXCEPT ![p] = [op |-> "hook_failure", intent |-> id]]
  /\ pc' = [pc EXCEPT ![p] = "hf_find"]
  /\ res' = [res EXCEPT ![p] = NoRes]
  /\ UNCHANGED <<user, game, txs, now, hist, bal, calc>>

\* handlePaymentFailure: findOne and the check transaction && isPending
HfFind(p) ==
  /\ pc[p] = "hf_find"
  /\ LET i == FindByGatewayId(loc[p].intent) IN
       IF i # 0 /\ isPending(txs[i])
         THEN Goto(p, "hf_fail", loc[p] @@ [tx |-> i, t |-> Load(txs[i])])
         ELSE Finish(p, Ok)
  /\ UNCHANGED <<user, game, txs, now, nreq, hist, bal, calc>>

\* transaction.markFailed('Payment failed', paymentIntent).  The refund branch
\* for a withdrawal follows at hf_user; no pending withdrawal carries a gateway
\* id (processPayment stores the id together with status completed), so the
\* notifications delivered here never reach it
HfFail(p) ==
  /\ pc[p] = "hf_fail"
  /\ LET h == markFailed(loc[p].t, now) IN
       /\ txs' = [txs EXCEPT ![loc[p].tx] = StoreTx(@, h)]
       /\ IF h.doc.type = "withdrawal"
            THEN Goto(p, "hf_user", [loc[p] EXCEPT !.t = Saved(h)])
            ELSE Finish(p, Ok)
  /\ UNCHANGED <<user, game, now, nreq, hist, bal, calc>>

HookFailureStep(p) ==
  \/ HfStart(p)
  \/ HfFind(p)
  \/ HfFail(p)


\* ============================================================== PUT /profile
CoinFields == {"total", "available", "pending"}
PfValues == {-1, 500}

\* the body's coins object: the fields it carries and their value
PfStart(p) ==
  /\ pc[p] = "idle"
  /\ nreq < MaxReq
  /\ nreq' = nreq + 1
  /\ \E fs \in (SUBSET CoinFields) \ {{}}, v \in PfValues :
       loc' = [loc EXCEPT ![p] = [op |-> "profile", fields |-> fs, value |-> v]]
  /\ pc' = [pc EXCEPT ![p] = "pf_user"]
  /\ res' = [res EXCEPT ![p] = NoRes]
  /\ UNCHANGED <<user, game, txs, now, hist, bal, calc>>

PfFindUser(p) ==
  /\ pc[p] = "pf_user"
  /\ Goto(p, "pf_save", loc[p] @@ [user |-> Load(user)])
  /\ UNCHANGED <<user, game, txs, now, nreq, hist, bal, calc>>

\* each field is taken when it is a number >= 0; user.save()
PfSave(p) ==
  /\ pc[p] = "pf_save"
  /\ LET v == loc[p].value
         take(f) == f \in loc[p].fields /\ v >= 0
         h == [loc[p].user EXCEPT
                 !.doc.total = IF take("total") THEN v ELSE @,
                 !.doc.available = IF take("available") THEN v ELSE @,
                 !.doc.pending = IF take("pending") THEN v ELSE @] IN
       IF ~UserValid(h)
         THEN /\ Finish(p, Err("Error updating profile"))
              /\ UNCHANGED user
       ELSE /\ user' = StoreUser(user, h)
            /\ Finish(p, Ok)
  /\ UNCHANGED <<game, txs, now, nreq, hist, bal, calc>>

ProfileStep(p) ==
  \/ PfStart(p)
  \/ PfFindUser(p)
  \/ PfSave(p)

SeqProcs == {"p1"}

\* the payment operations, one request at a time
NextPay ==
  \E p \in SeqProcs :
    \/ WithdrawStep(p) \/ WdInterrupted(p)
    \/ ApproveStep(p) \/ RejectStep(p) \/ BalanceStep(p)
    \/ DepositStep(p) \/ HookSuccessStep(p) \/ HookFailureStep(p)
    \/ ProfileStep(p)

SpecPay == InitWallet /\ [][NextPay]_vars

\* ======================================= PaymentService.processBatchWithdrawals
MaxBatch == 2
BatchIds ==
  {ids \in UNION {[1..n -> DOMAIN txs] : n \in 1..MaxBatch} : TRUE}

\* the loop moves to the next transaction id, or returns when the list is done
BtAdvance(p) ==
  IF Len(loc[p].ids) > 1
    THEN Goto(p, "bt_find",
              [op |-> "batch", ids |-> Tail(loc[p].ids), tx |-> loc[p].ids[2]])
    ELSE Finish(p, Ok)

BtStart(p) ==
  /\ pc[p] = "idle"
  /\ nreq < MaxReq
  /\ nreq' = nreq + 1
  /\ \E ids \in BatchIds :
       loc' = [loc EXCEPT ![p] = [op |-> "batch", ids |-> ids, tx |-> ids[1]]]
  /\ pc' = [pc EXCEPT ![p] = "bt_find"]
  /\ res' = [res EXCEPT ![p] = NoRes]
  /\ UNCHANGED <<user, game, txs, now, hist, bal, calc>>

\* approveWithdrawal's findOne; its error is caught and recorded by the loop
BtFind(p) ==
  /\ pc[p] = "bt_find"
  /\ LET t == txs[loc[p].tx] IN
       IF t.type = "withdrawal" /\ t.status = "pending"
         THEN Goto(p, "bt_processing", loc[p] @@ [t |-> Load(t)])
         ELSE BtAdvance(p)
  /\ UNCHANGED <<user, game, txs, now, nreq, hist, bal, calc>>

BtProcessing(p) ==
  /\ pc[p] = "bt_processing"
  /\ LET h == addLog([loc[p].t EXCEPT !.doc.status = "processing"]) IN
       /\ txs' = [txs EXCEPT ![loc[p].tx] = StoreTx(@, h)]
       /\ Goto(p, "bt_gateway", [loc[p] EXCEPT !.t = Saved(h)])
  /\ UNCHANGED <<user, game, now, nreq, hist, bal, calc>>

BtGateway(p) ==
  /\ pc[p] = "bt_gateway"
  /\ IF loc[p].t.doc.gateway \notin {"stripe", "epcm"}
       THEN LET h == markFailed(loc[p].t, now) IN
            /\ txs' = [txs EXCEPT ![loc[p].tx] = StoreTx(@, h)]
            /\ BtAdvance(p)
       ELSE \E success \in BOOLEAN :
            LET h == IF success
                     THEN markCompleted([loc[p].t EXCEPT
                            !.doc.gatewayTransactionId = PayoutId(loc[p].tx)])
                     ELSE markFailed(loc[p].t, now) IN
            /\ txs' = [txs EXCEPT ![loc[p].tx] = StoreTx(@, h)]
            /\ Goto(p, "bt_log", [loc[p] EXCEPT !.t = Saved(h)])
  /\ UNCHANGED <<user, game, now, nreq, hist, bal, calc>>

BtLog(p) ==
  /\ pc[p] = "bt_log"
  /\ LET h == addLog(loc[p].t) IN
       txs' = [txs EXCEPT ![loc[p].tx] = StoreTx(@, h)]
  /\ BtAdvance(p)
  /\ UNCHANGED <<user, game, now, nreq, hist, bal, calc>>

BatchStep(p) ==
  \/ BtStart(p)
  \/ BtFind(p)
  \/ BtProcessing(p)
  \/ BtGateway(p)
  \/ BtLog(p)

\* the user's withdrawal requests and the admin's approvals and batches, run
\* concurrently
NextSettle ==
  \E p \in Procs : WithdrawStep(p) \/ ApproveStep(p) \/ BatchStep(p)

SpecSettle == InitWallet /\ [][NextSettle]_vars

\* ------------------ large withdrawals and their approval, run concurrently
FlagAmounts == {120, 2000}

FlStart(p) == WdRequest(p, FlagAmounts, GateMethods, WdLocations)

NextFlag ==
  \E p \in Procs :
    \/ FlStart(p)
    \/ WdRoute(p)
    \/ WdKyc(p)
    \/ WdRisk(p)
    \/ ServiceStep(p)
    \/ ApproveStep(p)

SpecFlag == InitGate /\ [][NextFlag]_vars

\* ===================================== PaymentService.monitorSuspiciousActivity
\* the function applied to inputs on both sides of each of its thresholds
RiskRecent == {3, 4}
RiskCounts == {0, 2}
RiskSums == {200}
RiskAmounts == {500, 501, 1001}
RiskAges == {6, 7}
RiskHistories == {"none", "home"}
RiskLocations == {"none", "home", "away"}
RiskInputs ==
  [fails : BOOLEAN, recent : RiskRecent, count : RiskCounts, sum : RiskSums,
   amount : RiskAmounts, ageDays : RiskAges, history : RiskHistories,
   location : RiskLocations]

RiskCall ==
  /\ \E d \in RiskInputs :
       calc' = [op |-> "monitor", in |-> d, out |-> monitorSuspiciousActivity(d)]
  /\ UNCHANGED <<user, game, txs, pc, loc, res, now, nreq, hist, bal>>

NextRisk == RiskCall

SpecRisk == InitWallet /\ [][NextRisk]_vars

\* ============================================================ game sessions
\* One tick of the session clock is 15 minutes: the sweep looks 2 ticks back.
SweepAge == 2
MaxNotes == 3        \* keystrokes are taken while the session has fewer notes

\* ---------------------------------------------- GameService.processKeystroke
\* a keystroke of one of the given accuracies arrives while the session has
\* fewer than maxNotes notes: Game.findOne and the status check
KsRequest(p, accuracies, maxNotes) ==
  /\ pc[p] = "idle"
  /\ game.totalNotes < maxNotes
  /\ \E a \in accuracies :
       IF game.status # "active"
         THEN Finish(p, Err("Game session not found or not active"))
         ELSE Goto(p, "ks_save",
                   [op |-> "keystroke", accuracy |-> a, game |-> Load(game)])
  /\ UNCHANGED <<user, game, txs, now, nreq, hist, bal, calc>>

KsFind(p) == KsRequest(p, KeyAccuracies, MaxNotes)

\* game.addKeystroke(key, accuracy, reactionTime)
KsSave(p) ==
  /\ pc[p] = "ks_save"
  /\ game' = StoreGame(game, addKeystroke(loc[p].game, loc[p].accuracy, now))
  /\ Finish(p, Ok)
  /\ UNCHANGED <<user, txs, now, nreq, hist, bal, calc>>

KeystrokeStep(p) == KsFind(p) \/ KsSave(p)

\* ------------------------------------------------------- GameService.endGame
\* Game.findOne with populate('userId') and the status check
EgFind(p) ==
  /\ pc[p] = "idle"
  /\ nreq < MaxReq
  /\ nreq' = nreq + 1
  /\ IF game.status # "active"
       THEN Finish(p, Err("Game is not active"))
       ELSE Goto(p, "eg_complete",
                 [op |-> "end", game |-> Load(game), user |-> Load(user)])
  /\ UNCHANGED <<user, game, txs, now, hist, bal, calc>>

\* game.completeGame()
EgComplete(p) ==
  /\ pc[p] = "eg_complete"
  /\ LET h == completeGame(loc[p].game, now) IN
       /\ game' = StoreGame(game, h)
       /\ Goto(p, "eg_stats", [loc[p] EXCEPT !.game = Saved(h)])
  /\ UNCHANGED <<user, txs, now, nreq, hist, bal, calc>>

\* game.userId.updateStats(gameData): the experience of the score is added and
\* the user saved.  updateStats calls save() twice without awaiting the first
\* call; whether the second call is rejected depends on the Mongoose version,
\* so the request ends either way.
EgStats(p) ==
  /\ pc[p] = "eg_stats"
  /\ LET h == addExperience(loc[p].user,
                            loc[p].game.doc.totalScore \div ExperienceDiv) IN
       user' = StoreUser(user, h)
  /\ \E r \in {Ok, Err("Failed to end game")} : Finish(p, r)
  /\ UNCHANGED <<game, txs, now, nreq, hist, bal, calc>>

EndGameStep(p) == EgFind(p) \/ EgComplete(p) \/ EgStats(p)

\* ----------------------------------------------------- GameService.pauseGame
PsFind(p) ==
  /\ pc[p] = "idle"
  /\ nreq < MaxReq
  /\ nreq' = nreq + 1
  /\ IF game.status # "active"
       THEN Finish(p, Err("Game session not found or not active"))
       ELSE Goto(p, "ps_save", [op |-> "pause", game |-> Load(game)])
  /\ UNCHANGED <<user, game, txs, now, hist, bal, calc>>

PsSave(p) ==
  /\ pc[p] = "ps_save"
  /\ game' = StoreGame(game, pauseGame(loc[p].game))
  /\ Finish(p, Ok)
  /\ UNCHANGED <<user, txs, now, nreq, hist, bal, calc>>

\* ---------------------------------------------------- GameService.resumeGame
RsFind(p) ==
  /\ pc[p] = "idle"
  /\ nreq < MaxReq
  /\ nreq' = nreq + 1
  /\ IF game.status # "paused"
       THEN Finish(p, Err("Game session not found or not paused"))
       ELSE Goto(p, "rs_save", [op |-> "resume", game |-> Load(game)])
  /\ UNCHANGED <<user, game, txs, now, hist, bal, calc>>

RsSave(p) ==
  /\ pc[p] = "rs_save"
  /\ game' = StoreGame(game, resumeGame(loc[p].game))
  /\ Finish(p, Ok)
  /\ UNCHANGED <<user, txs, now, nreq, hist, bal, calc>>

\* --------------------------------------------------- GameService.abandonGame
\* Game.findOne: the session is found whatever its status
AbFind(p) ==
  /\ pc[p] = "idle"
  /\ nreq < MaxReq
  /\ nreq' = nreq + 1
  /\ Goto(p, "ab_save", [op |-> "abandon", game |-> Load(game)])
  /\ UNCHANGED <<user, game, txs, now, hist, bal, calc>>

AbSave(p) ==
  /\ pc[p] = "ab_save"
  /\ game' = StoreGame(game, abandonGame(loc[p].game, now))
  /\ Finish(p, Ok)
  /\ UNCHANGED <<user, txs, now, nreq, hist, bal, calc>>

StatusStep(p) ==
  \/ PsFind(p) \/ PsSave(p)
  \/ RsFind(p) \/ RsSave(p)
  \/ AbFind(p) \/ AbSave(p)

\* ----------------------------------------- GameService.cleanupExpiredSessions
\* Game.updateMany: one atomic update of the sessions that match
Expired(g, t) == g.status = "active" /\ g.startTime < t - SweepAge

Sweep ==
  /\ Expired(game, now)
  /\ game' = [game EXCEPT !.status = "abandoned", !.endTime = now]
  /\ hist' = [hist EXCEPT !.sweeps = @ + 1]
  /\ UNCHANGED <<user, txs, pc, loc, res, now, nreq, bal, calc>>

\* a user plays a note of, pauses, resumes, ends or abandons an active session
\* and claims its rewards while the cron job sweeps; the session is old enough
\* to be swept
PlayKey(p) == KsRequest(p, {"perfect"}, 1)

InitPlay ==
  /\ InitProcs
  /\ user = NewUser(0, "verified")
  /\ game = [NewGame("active", 0, {}) EXCEPT !.startTime = now - SweepAge - 1]
  /\ txs = <<>>
  /\ hist = [rewardCredits |-> 0, tx |-> <<>>, sweeps |-> 0]

NextPlay ==
  \/ \E p \in Procs :
       \/ PlayKey(p) \/ KsSave(p)
       \/ EndGameStep(p) \/ StatusStep(p)
       \/ ClaimStart(p) \/ ClaimFind(p) \/ ClaimGameSave(p) \/ ClaimFindUser(p)
       \/ ClaimAddCoins(p) \/ ClaimAddExperience(p) \/ ClaimCreateTx(p)
  \/ Sweep

SpecPlay == InitPlay /\ [][NextPlay]_vars

\* a user plays and pauses a fresh session while the clock runs and the cron
\* job sweeps
InitSweep ==
  /\ InitProcs
  /\ user = NewUser(0, "verified")
  /\ game = NewGame("active", 0, {})
  /\ txs = <<>>
  /\ hist = [rewardCredits |-> 0, tx |-> <<>>, sweeps |-> 0]

NextSweep ==
  \/ \E p \in {"p1"} :
       \/ KeystrokeStep(p)
       \/ PsFind(p) \/ PsSave(p) \/ RsFind(p) \/ RsSave(p)
  \/ Sweep
  \/ Tick

SpecSweep == InitSweep /\ [][NextSweep]_vars

\* a session in which a perfect and a missed note have been played
PlayedGame ==
  LET h1 == addKeystroke(Load(NewGame("active", 0, {})), "perfect", 0)
      h2 == addKeystroke(Saved(h1), "miss", 0)
  IN h2.doc

\* keystrokes on a session in play, the end of the session and the claim of
\* its rewards, run concurrently
InitScore ==
  /\ InitProcs
  /\ user = NewUser(0, "verified")
  /\ game = PlayedGame
  /\ txs = <<>>
  /\ hist = NoHist

NextScore ==
  \E p \in Procs :
    \/ KeystrokeStep(p) \/ EndGameStep(p)
    \/ ClaimStart(p) \/ ClaimFind(p) \/ ClaimGameSave(p) \/ ClaimFindUser(p)
    \/ ClaimAddCoins(p) \/ ClaimAddExperience(p) \/ ClaimCreateTx(p)

SpecScore == InitScore /\ [][NextScore]_vars

\* ================================================ Transaction.getUserBalance
\* the ledgers the function is applied to: completed transactions of every
\* type, transactions of a credit and of a debit type in every other status,
\* and completed transactions of another user
BalAmounts == {1, 2}
BalRecords ==
  {NewTx(ty, a, "completed") : ty \in TxTypes, a \in BalAmounts}
  \cup {NewTx(ty, 1, st) : ty \in {"deposit", "withdrawal"},
                           st \in TxStatuses \ {"completed"}}
  \cup {[NewTx(ty, 2, "completed") EXCEPT !.userId = "u2"] :
          ty \in {"deposit", "withdrawal"}}

BalLedgers == UNION {[1..n -> BalRecords] : n \in 0..MaxBalTx}

InitBalance ==
  /\ pc = [p \in Procs |-> "idle"]
  /\ loc = [p \in Procs |-> NoLoc]
  /\ res = [p \in Procs |-> NoRes]
  /\ nreq = 0
  /\ now = 1
  /\ user = NewUser(0, "verified")
  /\ game = NewGame("active", 0, {})
  /\ txs = <<>>
  /\ hist = NoHist
  /\ calc = NoCalc
  /\ \E l \in BalLedgers : bal = [user |-> "u1", txs |-> l, result |-> 0, done |-> FALSE]

BalanceCall ==
  /\ ~bal.done
  /\ bal' = [bal EXCEPT !.result = getUserBalance(bal.txs, bal.user), !.done = TRUE]
  /\ UNCHANGED <<user, game, txs, pc, loc, res, now, nreq, hist, calc>>

NextBalance == BalanceCall

SpecBalance == InitBalance /\ [][NextBalance]_vars

\* ========================================================= fee computations
\* amounts in thousandths: 1, 10, 20 and 1000 units
FeeAmounts == {1000, 10000, 20000, 1000000}
FeeValues == {0, 500}

\* Transaction.createWithdrawal(userId, amount, method, accountInfo)
FeeCreateWithdrawal ==
  /\ \E a \in FeeAmounts, m \in PaymentMethodEnum :
       calc' = [op |-> "createWithdrawal", amount |-> a, method |-> m,
                fees |-> feesOf(createWithdrawal(a, m)),
                netAmount |-> netAmount(createWithdrawal(a, m))]
  /\ UNCHANGED <<user, game, txs, pc, loc, res, now, nreq, hist, bal>>

\* transaction.calculateFees() on a transaction of any type and gateway
FeeCalculate ==
  /\ \E a \in FeeAmounts, ty \in TxTypes, g \in PaymentGatewayEnum \cup {"none"} :
       calc' = [op |-> "calculateFees", amount |-> a, type |-> ty, gateway |-> g,
                fees |-> feesOf(calculateFees([NewTx(ty, a, "pending") EXCEPT
                                                 !.gateway = g]))]
  /\ UNCHANGED <<user, game, txs, pc, loc, res, now, nreq, hist, bal>>

\* save() of a transaction whose fee fields were set to any values
FeeSave ==
  /\ \E a \in FeeAmounts, ty \in {"withdrawal", "deposit"}, isNew \in BOOLEAN,
        fp \in FeeValues, fy \in FeeValues, fw \in FeeValues, ft \in FeeValues :
       calc' = [op |-> "save", amount |-> a, type |-> ty, isNew |-> isNew,
                fees |-> feesOf(PreSaveTx(Load([NewTx(ty, a, "pending") EXCEPT
                                   !.feePlatform = fp, !.feePayment = fy,
                                   !.feeWithdrawal = fw, !.feeTotal = ft]),
                                isNew).doc)]
  /\ UNCHANGED <<user, game, txs, pc, loc, res, now, nreq, hist, bal>>

\* GET /fees/calculate: PaymentService.calculateFees(amount, type, method)
FeeService ==
  /\ \E a \in FeeAmounts, ty \in TxTypes, m \in PaymentMethodEnum \cup {"none"} :
       calc' = [op |-> "PaymentService.calculateFees", amount |-> a, type |-> ty,
                method |-> m, fees |-> serviceCalculateFees(a, ty, m)]
  /\ UNCHANGED <<user, game, txs, pc, loc, res, now, nreq, hist, bal>>

NextFees == FeeCreateWithdrawal \/ FeeCalculate \/ FeeSave \/ FeeService

SpecFees == InitWallet /\ [][NextFees]_vars

\* ============================================ methods of one Transaction
\* One stored transaction and the in-memory copies of it that two callers
\* hold.  A caller loads the document, or calls updateStatus, markCompleted or
\* markFailed on its copy, which saves the copy; the copy of the other caller
\* may be stale.
\* the statuses updateStatus is called with: a retry and a cancellation
TxNewStatuses == {"processing", "cancelled"}

InitTx ==
  /\ InitProcs
  /\ user = NewUser(InitCoins, "verified")
  /\ game = NewGame("active", 0, {})
  /\ txs = <<createWithdrawal(40, "bank_transfer")>>
  /\ hist = [rewardCredits |-> 0, tx |-> <<NoTxHist>>]

\* Transaction.findOne / findById
TxLoad(p) ==
  /\ pc[p] \in {"idle", "tx_open"}
  /\ loc[p] # [op |-> "tx", t |-> Load(txs[1])]
  /\ pc' = [pc EXCEPT ![p] = "tx_open"]
  /\ loc' = [loc EXCEPT ![p] = [op |-> "tx", t |-> Load(txs[1])]]
  /\ UNCHANGED <<user, game, txs, res, now, nreq, hist, bal, calc>>

\* a method call on the copy of p; h is the copy after the call and its save
TxCall(p, name, h) ==
  /\ nreq' = nreq + 1
  /\ txs' = [txs EXCEPT ![1] = StoreTx(@, h)]
  /\ loc' = [loc EXCEPT ![p].t = Saved(h)]
  /\ calc' = [op |-> name, by |-> p]
  /\ UNCHANGED <<user, game, pc, res, now, hist, bal>>

TxUpdateStatus(p) ==
  /\ pc[p] = "tx_open"
  /\ nreq < MaxTxOps
  /\ \E st \in TxNewStatuses : TxCall(p, "updateStatus", updateStatus(loc[p].t, st))

TxMarkCompleted(p) ==
  /\ pc[p] = "tx_open"
  /\ nreq < MaxTxOps
  /\ TxCall(p, "markCompleted", markCompleted(loc[p].t))

TxMarkFailed(p) ==
  /\ pc[p] = "tx_open"
  /\ nreq < MaxTxOps
  /\ TxCall(p, "markFailed", markFailed(loc[p].t, now))

NextTx ==
  \/ \E p \in Procs :
       TxLoad(p) \/ TxUpdateStatus(p) \/ TxMarkCompleted(p) \/ TxMarkFailed(p)
  \/ Tick

SpecTx == InitTx /\ [][NextTx]_vars

\* ==================================================================== claims
Idle == \A p \in Procs : pc[p] = "idle"

RewardTxs == {i \in DOMAIN txs : txs[i].type = "game_reward"}

\* C1: under any interleaving of concurrent claimRewards calls on a completed
\* session, at most one game_reward transaction is created and the wallet is
\* credited at most once (the claim as stated; the code violates it)
C1_AtMostOneReward ==
  /\ Cardinality(RewardTxs) <= 1
  /\ hist.rewardCredits <= 1

\* C2: a claimRewards call that finds the session with rewards.claimed = true
\* fails with 'Rewards already claimed' in that step and changes nothing: no
\* transaction, coins, experience, claimed and claimedAt as before
C2_ClaimedIsNoOp ==
  [][\A p \in Procs :
       (pc[p] = "claim_find" /\ pc'[p] # "claim_find"
          /\ game.status = "completed" /\ game.claimed)
       => /\ pc'[p] = "idle"
          /\ res'[p] = Err("Rewards already claimed")
          /\ UNCHANGED <<user, game, txs, hist>>]_vars

C2_Witness ==
  \E p \in Procs :
    /\ res[p] = Err("Rewards already claimed")
    /\ game.claimed /\ game.claimedAt > 0
    /\ Cardinality(RewardTxs) = 1

\* C3: claim flag and ledger credit do not diverge: whenever no claim is in
\* flight, rewards.claimed holds iff exactly one game_reward transaction exists
\* and the wallet was credited once with its amount (the claim as stated; the
\* code violates it when a write after the session save fails)
C3_ClaimedIffCredited ==
  Idle =>
    (game.claimed <=>
       /\ Cardinality(RewardTxs) = 1
       /\ hist.rewardCredits = 1
       /\ \A i \in RewardTxs : user.available = txs[i].amount)

\* what request i reserved and did not give back: still held, or paid out
Held == [i \in DOMAIN hist.tx |-> hist.tx[i].reserved - hist.tx[i].refunded]

\* C4: under any interleaving of concurrent processWithdrawal requests the
\* total amount reserved (held or paid out) never exceeds the balance that was
\* available before the requests, and coins.available never drops below 0
\* (the claim as stated; the code violates it)
C4_NoDoubleReserve ==
  /\ SumSet(DOMAIN hist.tx, Held) <= InitCoins
  /\ user.available >= 0

\* C5: in every state reachable by the public operations the wallet satisfies
\* available >= 0, pending >= 0 and available + pending <= total.
C5_WalletInvariant ==
  /\ user.available >= 0
  /\ user.pending >= 0
  /\ user.available + user.pending <= user.total

\* what one transaction adds to the balance of user u
Contribution(t, u) ==
  IF t.userId = u /\ t.status = "completed"
    THEN IF t.type \in CreditTypes THEN t.amount
         ELSE IF t.type \in DebitTypes THEN 0 - t.amount
         ELSE 0
    ELSE 0

RECURSIVE LedgerSum(_, _)
LedgerSum(ts, u) ==
  IF ts = <<>> THEN 0 ELSE Contribution(Head(ts), u) + LedgerSum(Tail(ts), u)

\* C6: getUserBalance returns max(0, completed credits minus completed debits)
\* of the user's transactions; transactions in another status, and those of
\* other users, contribute nothing.
C6_BalanceIsCompletedSum ==
  bal.done => bal.result = Max(0, LedgerSum(bal.txs, bal.user))

\* a ledger with a completed credit, a completed debit and a transaction that
\* is not completed, and a positive balance
C6_Witness ==
  /\ bal.done
  /\ bal.result > 0
  /\ \E i, j, k \in DOMAIN bal.txs :
       /\ bal.txs[i].status = "completed" /\ bal.txs[i].type \in CreditTypes
       /\ bal.txs[j].status = "completed" /\ bal.txs[j].type \in DebitTypes
       /\ bal.txs[k].status # "completed"

LegalTransitions ==
  {<<"pending", "processing">>, <<"processing", "completed">>,
   <<"processing", "failed">>, <<"failed", "processing">>,
   <<"pending", "expired">>} \cup {<<s, "cancelled">> : s \in TxStatuses}

\* C7: every change of a stored transaction's status is one of the legal
\* transitions.
C7_OnlyLegalTransitions ==
  [][\A i \in DOMAIN txs :
        txs'[i].status # txs[i].status =>
          <<txs[i].status, txs'[i].status>> \in LegalTransitions]_vars

\* C8: a deposit is credited to the wallet at most once, however many success
\* notifications are delivered for it one after the other, and a notification
\* for a completed transaction changes neither the wallet nor the ledger.
C8_DepositCreditedOnce ==
  [][/\ \A i \in DOMAIN hist'.tx : hist'.tx[i].credits <= 1
     /\ \A p \in SeqProcs :
          (/\ pc[p] = "hs_find"
           /\ FindByGatewayId(loc[p].intent) # 0
           /\ txs[FindByGatewayId(loc[p].intent)].status = "completed")
          => /\ pc'[p] = "idle"
             /\ UNCHANGED <<user, txs>>]_vars

\* a deposit credited once after two success notifications, the first of which
\* completed it, and one that processDeposit itself completed and credited
\* before a notification arrived
C8_Witness ==
  /\ Idle
  /\ \E i \in DOMAIN txs :
       /\ txs[i].type = "deposit" /\ txs[i].status = "completed"
       /\ hist.tx[i].credits = 1 /\ hist.tx[i].hooks >= 2

\* C9: a success notification for a transaction that is failed, cancelled or
\* expired leaves its status as it is and credits nothing.
C9_TerminalNotResurrected ==
  [][\A p \in SeqProcs :
       (/\ pc[p] = "hs_find"
        /\ FindByGatewayId(loc[p].intent) # 0
        /\ txs[FindByGatewayId(loc[p].intent)].status
             \in {"failed", "cancelled", "expired"})
       => /\ pc'[p] = "idle"
          /\ UNCHANGED <<user, txs>>
          /\ \A i \in DOMAIN hist.tx : hist'.tx[i].credits = hist.tx[i].credits]_vars

\* a failed deposit that has received a success notification and is still
\* failed and uncredited
C9_Witness ==
  /\ Idle
  /\ \E i \in DOMAIN txs :
       /\ txs[i].type = "deposit" /\ txs[i].status = "failed"
       /\ hist.tx[i].hooks >= 1 /\ hist.tx[i].credits = 0

\* C10: once a withdrawal whose amount was reserved has failed at the gateway
\* and its handler has returned, the whole reserved amount is back in
\* coins.available.
C10_FailedWithdrawalRefunded ==
  Idle =>
    \A i \in DOMAIN txs :
      (txs[i].type = "withdrawal" /\ txs[i].status = "failed")
        => hist.tx[i].refunded = hist.tx[i].reserved

\* C11: once a withdrawal has been completed by a gateway success and its
\* handler has returned, the gateway transaction id is stored on it, the whole
\* reserved amount has left coins.pending and nothing was put back into
\* coins.available.
C11_SuccessReleasesPending ==
  Idle =>
    \A i \in DOMAIN txs :
      (txs[i].type = "withdrawal" /\ txs[i].status = "completed")
        => /\ txs[i].gatewayTransactionId # 0
           /\ hist.tx[i].paid = hist.tx[i].reserved
           /\ hist.tx[i].refunded = 0

C13_InvalidRequestNoEffect ==
  [][\A p \in Procs :
       (/\ pc[p] # "idle"
        /\ loc[p].op = "withdraw"
        /\ RouteValidation(loc[p].amount, loc[p].method) # Ok)
       => UNCHANGED <<user, txs>>]_vars

\* a fee field of a fees object; a field the object does not have counts as 0
FeeField(r, f) == IF f \in DOMAIN r THEN r[f] ELSE 0

\* C14: after every fee computation and every save of a transaction,
\* fees.total = fees.platform + fees.payment + fees.withdrawal.
C14_FeeTotalIsSum ==
  calc.op # "none" =>
    FeeField(calc.fees, "total") =
      FeeField(calc.fees, "platform") + FeeField(calc.fees, "payment")
        + FeeField(calc.fees, "withdrawal")

\* calculateFees on a withdrawal through stripe: a payment fee at the minimum
\* 0.30 and a withdrawal fee, both in the total
C14_Witness ==
  /\ calc.op = "calculateFees"
  /\ calc.fees.payment = StripeMinFee
  /\ calc.fees.withdrawal > 0
  /\ calc.fees.total = calc.fees.payment + calc.fees.withdrawal

\* C15: a withdrawal of requested amount A through the bank-transfer gateway
\* records withdrawal fee 5% of A and payment fee max(5, 2.5% of A), and its
\* netAmount is A - fees.total.
C15_BankTransferFees ==
  (calc.op = "createWithdrawal" /\ calc.method = "bank_transfer") =>
    /\ calc.fees.withdrawal = Rate(calc.amount, 50)
    /\ calc.fees.payment = Max(5000, Rate(calc.amount, 25))
    /\ calc.netAmount = calc.amount - calc.fees.total

C17_CancelledIsTerminal ==
  [][\A i \in DOMAIN txs :
       txs[i].status \in {"cancelled", "expired"} =>
         /\ ~canRetry(txs[i])
         /\ txs'[i].status = txs[i].status
         /\ txs'[i].retryCount = txs[i].retryCount
         /\ txs'[i].nextRetry = txs[i].nextRetry]_vars

\* C18: every change of a transaction's status appends exactly one entry to
\* audit.statusHistory, with from = the status before and to = the status
\* after; the entries already there stay as they are, in their order.
C18_HistoryRecordsTransitions ==
  [][\A i \in DOMAIN txs :
       LET old == txs[i]
           new == txs'[i] IN
         /\ Len(new.statusHistory) >= Len(old.statusHistory)
         /\ SubSeq(new.statusHistory, 1, Len(old.statusHistory)) = old.statusHistory
         /\ old.status # new.status =>
              new.statusHistory =
                Append(old.statusHistory, [from |-> old.status, to |-> new.status])]_vars

\* C19: a handler issues the gateway call for a transaction (processWithdrawal
\* after the reservation, processPayment after its payment_started log) only
\* if canBeProcessed() holds for the transaction when the handler turns to the
\* settlement.
C19_SettlementNeedsCanBeProcessed ==
  [][\A p \in Procs :
       (pc'[p] \in {"wd_gateway", "ap_gateway"} /\ pc[p] # pc'[p])
         => canBeProcessed(txs[loc[p].tx])]_vars

\* the processes whose gateway call for transaction i is in flight
InFlight(i) ==
  {p \in Procs : /\ pc[p] \in {"wd_gateway", "ap_gateway", "bt_gateway"}
                 /\ loc[p].tx = i}

\* C20: under every interleaving of processWithdrawal, approveWithdrawal and
\* processBatchWithdrawals, a transaction has at most one gateway submission in
\* flight (the claim as stated; the code violates it)
C20_OneSubmissionInFlight ==
  \A i \in DOMAIN txs : Cardinality(InFlight(i)) <= 1

\* C21: an account younger than 7 days that asks for a withdrawal above 500
\* is held for review: its request never reaches the gateway call of
\* processWithdrawal (the claim as stated; the code violates it)
C21_NewAccountLargeHeld ==
  [][\A p \in Procs :
       (pc'[p] = "wd_gateway" /\ pc[p] # "wd_gateway")
         => ~(user.ageDays < NewAccountDays /\ loc[p].amount > NewAccountAmount)]_vars

Bit(b) == IF b THEN 1 ELSE 0

\* the four risk signals of an assessment input
ManyWithdrawals(d) == d.recent >= 4
UnusualAmount(d) == d.count > 0 /\ d.amount * d.count > 5 * d.sum
NewAccountLarge(d) == d.ageDays < 7 /\ d.amount > 500
OtherLocation(d) ==
  d.history # "none" /\ d.location # "none" /\ d.location # d.history

\* C22: for every combination of the four risk signals the returned riskScore
\* is min(100, 30*[at least 4 withdrawals in 24h] + 25*[amount > 5 x average]
\* + 40*[account younger than 7 days and amount > 500] + 20*[other location]),
\* and every returned riskScore lies within 0..100
C22_RiskScoreFormula ==
  calc.op = "monitor" =>
    /\ calc.out.riskScore \in 0..100
    /\ ~calc.in.fails =>
         calc.out.riskScore =
           Min(100, 30 * Bit(ManyWithdrawals(calc.in))
                    + 25 * Bit(UnusualAmount(calc.in))
                    + 40 * Bit(NewAccountLarge(calc.in))
                    + 20 * Bit(OtherLocation(calc.in)))

C22_Witness ==
  /\ calc.op = "monitor"
  /\ ~calc.in.fails
  /\ ManyWithdrawals(calc.in) /\ UnusualAmount(calc.in)
  /\ NewAccountLarge(calc.in) /\ OtherLocation(calc.in)
  /\ calc.out.riskScore = 100

\* C23: in every result of monitorSuspiciousActivity, the result of a failed
\* assessment included, requiresReview holds exactly when riskScore > 70 and
\* requiresApproval exactly when riskScore > 50 (the claim as stated; the code
\* violates it)
C23_ReviewFlagsFollowScore ==
  calc.op = "monitor" =>
    /\ calc.out.requiresReview <=> calc.out.riskScore > 70
    /\ calc.out.requiresApproval <=> calc.out.riskScore > 50

\* C24: in every stored state of a transaction, verification.riskScore lies
\* within 0..100 and a riskScore above 70 implies verification.flagged; no
\* operation resets a stored flagged from true to false
C24_RiskScoreFlags ==
  /\ [](\A i \in DOMAIN txs :
          /\ txs[i].riskScore \in 0..100
          /\ txs[i].riskScore > 70 => txs[i].flagged)
  /\ [][\A i \in DOMAIN txs : txs[i].flagged => txs'[i].flagged]_vars

C24_Witness ==
  \E i \in DOMAIN txs :
    /\ txs[i].riskScore > 70 /\ txs[i].flagged
    /\ txs[i].status \in {"completed", "failed"}

\* C25: a withdrawal of amount A is let through only when the user's KYC level
\* ranks at least as high as the level required for A, through the route and
\* through processWithdrawal alike: no transaction is created for a request
\* whose required level is above the user's (the claim as stated; the code
\* violates it)
C25_KycGate ==
  [][\A p \in Procs :
       (pc[p] = "wd_create" /\ pc'[p] = "wd_deduct")
         => verifyKYCForTransaction(user, loc[p].amount).allowed]_vars

\* C26: no client-callable operation sets coins.total, coins.available or
\* coins.pending to a value supplied by the caller: no step of a profile
\* update changes a wallet field (the claim as stated; the code violates it)
C26_WalletNotSetByClient ==
  [][\A p \in Procs :
       (loc[p].op = "profile" /\ pc'[p] # pc[p])
         => \A f \in CoinFields : user'[f] = user[f]]_vars

\* C27: under any interleaving of the expiry sweep with endGame, pauseGame,
\* resumeGame and abandonGame on the same session, a session the sweep has set
\* to abandoned is never overwritten to completed, paused or active (the claim
\* as stated; the code violates it)
C27_SweptStaysAbandoned ==
  [][(hist.sweeps > 0 /\ game.status = "abandoned")
       => game'.status = "abandoned"]_vars

\* a keystroke is added to the stored session
KeystrokeApplied(p) == pc[p] = "ks_save" /\ pc'[p] = "idle"

\* the reward of a claim is credited to the wallet
RewardIssued(p) == pc[p] = "claim_coins" /\ pc'[p] = "claim_exp"

\* C29: a session whose status is paused or abandoned accepts neither
\* keystrokes nor reward claims: no keystroke is added to it and no reward is
\* issued for it (the claim as stated; the code violates it)
C29_StoppedSessionAcceptsNothing ==
  [][\A p \in Procs :
       (KeystrokeApplied(p) \/ RewardIssued(p))
         => game.status \notin {"paused", "abandoned"}]_vars

\* the time of the last activity of a session: its start or its last keystroke
LastActivity(g) == Max(g.startTime, g.lastKeystroke)

\* C28: the sweep abandons a session exactly when it has had no activity for
\* 30 minutes; in particular a session with a keystroke within the last 30
\* minutes is not abandoned by the sweep (the claim as stated; the code
\* violates it)
C28_SweepAfterInactivity ==
  [][hist'.sweeps > hist.sweeps
       => now - LastActivity(game) >= SweepAge]_vars

\* C30: the coins settled by claimRewards are floor(totalScore * coinPerPoint)
\* plus the coin bonuses of the unlocked achievements, the experience is
\* floor(totalScore / 100) plus their experience bonuses, for the total score
\* the session has when its rewards are claimed (the claim as stated; the code
\* violates it)
C30_RewardFormula ==
  [][\A p \in Procs :
       (pc[p] = "claim_game" /\ pc'[p] = "claim_user")
         => LET g == loc'[p].game.doc IN
            /\ loc'[p].reward.coins =
                 g.totalScore \div 1000 + SumSet(g.achievements, AchievementCoins)
            /\ loc'[p].reward.experience =
                 g.totalScore \div 100
                   + SumSet(g.achievements, AchievementExperience)]_vars

\* =================================== transactions in processing, with fairness
\* a handler that has started goes on: every await of a started request
\* eventually returns (the gateway calls included, which answer, decline or
\* throw).  Nothing makes a client send a request, the gateway deliver a
\* notification, or a process stop in the middle of a handler.
Continue(p) ==
  /\ pc[p] # "idle"
  /\ \/ WithdrawStep(p)
     \/ ApproveStep(p)
     \/ DepositStep(p)
     \/ HookSuccessStep(p)
     \/ HookFailureStep(p)

NextLive ==
  \E p \in SeqProcs :
    \/ WithdrawStep(p) \/ WdInterrupted(p)
    \/ ApproveStep(p)
    \/ DepositStep(p) \/ HookSuccessStep(p) \/ HookFailureStep(p)

SpecLive ==
  InitWallet /\ [][NextLive]_vars /\ \A p \in SeqProcs : WF_vars(Continue(p))

\* C31: every transaction that enters status processing eventually reaches
\* completed or failed; no deposit or withdrawal stays in processing forever.
C31_ProcessingEnds ==
  \A i \in 1..(MaxReq + 1) :
    (i \in DOMAIN txs /\ txs[i].status = "processing")
      ~> (i \in DOMAIN txs /\ txs[i].status \in {"completed", "failed"})

\* ------------------------------------- failed withdrawals and the retry time
\* the wall clock in minutes, advancing by the retry step: a withdrawal that
\* fails at time t with retries left has nextRetry = t + retryCount * RetryStep
RetryClock ==
  /\ now <= MaxTime * RetryStep
  /\ now' = now + RetryStep
  /\ UNCHANGED <<user, game, txs, pc, loc, res, nreq, hist, bal, calc>>

\* the user's withdrawals and the admin's approvals while time passes; the
\* scheduled tasks of the server (session sweep, price update, daily report)
\* do not touch the transactions
NextResubmit ==
  \/ \E p \in SeqProcs : WithdrawStep(p) \/ WdInterrupted(p) \/ ApproveStep(p)
  \/ RetryClock

SpecResubmit ==
  /\ InitWallet
  /\ [][NextResubmit]_vars
  /\ \A p \in SeqProcs : WF_vars(Continue(p))
  /\ WF_vars(RetryClock)

RetryDue(i) ==
  /\ i \in DOMAIN txs
  /\ txs[i].type = "withdrawal"
  /\ txs[i].status = "failed"
  /\ txs[i].retryCount < txs[i].maxRetries
  /\ now >= txs[i].nextRetry

\* C32: a withdrawal that failed at the gateway while retries remain is
\* eventually resubmitted (failed -> processing) once its nextRetry time is
\* due; a failed withdrawal without retries left stays failed.
C32_FailedIsRetried ==
  /\ \A i \in 1..(MaxReq + 1) :
       RetryDue(i) ~> (i \in DOMAIN txs /\ txs[i].status = "processing")
  /\ [][\A i \in DOMAIN txs :
          (txs[i].status = "failed" /\ txs[i].retryCount >= txs[i].maxRetries)
            => txs'[i].status = "failed"]_vars

\* ======================================== PaymentService.processReferralBonus
ReferralBonus == 100

RfStart(p) ==
  /\ pc[p] = "idle"
  /\ nreq < MaxReq
  /\ nreq' = nreq + 1
  /\ loc' = [loc EXCEPT ![p] = [op |-> "referral"]]
  /\ pc' = [pc EXCEPT ![p] = "rf_user"]
  /\ res' = [res EXCEPT ![p] = NoRes]
  /\ UNCHANGED <<user, game, txs, now, hist, bal, calc>>

\* User.findById(referrerId), User.findById(newUserId): both exist
RfFindUser(p) ==
  /\ pc[p] = "rf_user"
  /\ Goto(p, "rf_coins", loc[p] @@ [user |-> Load(user)])
  /\ UNCHANGED <<user, game, txs, now, nreq, hist, bal, calc>>

\* referrer.addCoins(bonusAmount, 'referral')
RfAddCoins(p) ==
  /\ pc[p] = "rf_coins"
  /\ LET h == addCoins(loc[p].user, ReferralBonus) IN
       /\ user' = StoreUser(user, h)
       /\ Goto(p, "rf_save", [loc[p] EXCEPT !.user = Saved(h)])
  /\ UNCHANGED <<game, txs, now, nreq, hist, bal, calc>>

\* referrer.referral.referredUsers.push(...); referrer.save(): no wallet path
\* is modified
RfSave(p) ==
  /\ pc[p] = "rf_save"
  /\ user' = StoreUser(user, loc[p].user)
  /\ Goto(p, "rf_tx", loc[p])
  /\ UNCHANGED <<game, txs, now, nreq, hist, bal, calc>>

\* new Transaction({type: 'referral', amount: bonusAmount, status: 'completed'})
RfCreateTx(p) ==
  /\ pc[p] = "rf_tx"
  /\ txs' = Append(txs, PreSaveTx(Load(NewTx("referral", ReferralBonus,
                                            "completed")), TRUE).doc)
  /\ hist' = [hist EXCEPT !.tx = Append(@, NoTxHist)]
  /\ Finish(p, Ok)
  /\ UNCHANGED <<user, game, now, nreq, bal, calc>>

ReferralStep(p) ==
  \/ RfStart(p)
  \/ RfFindUser(p)
  \/ RfAddCoins(p)
  \/ RfSave(p)
  \/ RfCreateTx(p)

\* ------------------------------------------- the wallet against the ledger
\* a funded wallet whose ledger agrees with it, and a completed session that
\* has not been claimed
InitLedger ==
  /\ InitProcs
  /\ user = NewUser(InitCoins, "verified")
  /\ game = NewGame("completed", 2500, {"first_game"})
  /\ txs = << NewTx("bonus", InitCoins, "completed") >>
  /\ hist = [rewardCredits |-> 0, tx |-> << NoTxHist >>]

\* reward claims, deposits, withdrawals and referral bonuses, one request at a
\* time, every write succeeding
NextLedger ==
  \E p \in SeqProcs :
    \/ ClaimStart(p) \/ ClaimFind(p) \/ ClaimGameSave(p) \/ ClaimFindUser(p)
    \/ ClaimAddCoins(p) \/ ClaimAddExperience(p) \/ ClaimCreateTx(p)
    \/ DepositStep(p)
    \/ WithdrawStep(p)
    \/ ReferralStep(p)

SpecLedger == InitLedger /\ [][NextLedger]_vars

OpenWithdrawal ==
  \E i \in DOMAIN txs : txs[i].type = "withdrawal" /\ isPending(txs[i])

\* C33: whenever no request is running and no withdrawal is pending or
\* processing, coins.available equals getUserBalance(user): every completed
\* operation changes the wallet by the amount by which its transaction changes
\* the balance derived from the ledger.
C33_WalletEqualsLedger ==
  (Idle /\ ~OpenWithdrawal) => user.available = getUserBalance(txs, "u1")

\* ------------------------- balance queries while a withdrawal is under way
\* one client withdrawing, another request reading GET /balance
NextReserve == WithdrawStep("p1") \/ BalanceStep("p2")

SpecReserve == InitWallet /\ [][NextReserve]_vars

\* the withdrawals in pending or processing
OpenWithdrawals ==
  {i \in DOMAIN txs : txs[i].type = "withdrawal" /\ isPending(txs[i])}

BalanceQueryStep(p) ==
  /\ pc[p] \in {"bl_user", "bl_balance", "bl_sync", "bl_pending"}
  /\ pc'[p] # pc[p]

\* C34: the funds reserved for a withdrawal stay out of coins.available for as
\* long as the withdrawal is pending or processing, and no step of a balance
\* query changes coins.available, coins.pending or coins.total.
C34_ReservedStaysExcluded ==
  /\ [](user.available + SumSet(OpenWithdrawals, Held) <= InitCoins)
  /\ [][\A p \in Procs :
          BalanceQueryStep(p) =>
            /\ user'.available = user.available
            /\ user'.pending = user.pending
            /\ user'.total = user.total]_vars

\* --------------------- deposits and their success notifications, concurrent
NextDeposit == \E p \in Procs : DepositStep(p) \/ HookSuccessStep(p)

SpecDeposit == InitWallet /\ [][NextDeposit]_vars

\* C35: a deposit is credited to the wallet at most once under every
\* interleaving of processDeposit with payment_intent.succeeded notifications
\* for the same payment intent.
C35_DepositCreditedOnceConcurrently ==
  \A i \in DOMAIN txs : txs[i].type = "deposit" => hist.tx[i].credits <= 1

\* ------------- a withdrawal, its rejection and failure notifications, concurrent
\* the deposits give the notifications payment intents to refer to
NextRelease ==
  \E p \in Procs :
    \/ WithdrawStep(p)
    \/ RejectStep(p)
    \/ DepositStep(p)
    \/ HookFailureStep(p)

SpecRelease == InitWallet /\ [][NextRelease]_vars

\* what the deposits have added to the wallet
DepositCredits ==
  [i \in DOMAIN txs |->
     IF txs[i].type = "deposit"
       THEN hist.tx[i].credits * txs[i].amount * CoinsPerUnit ELSE 0]

\* C36: the reservation of a withdrawal is released at most once: what is
\* returned to coins.available never exceeds what was reserved (the wallet
\* never holds more than its funds and the credited deposits), and a
\* withdrawal whose reservation was refunded does not end in status completed.
C36_ReleasedAtMostOnce ==
  /\ user.available <= InitCoins + SumSet(DOMAIN txs, DepositCredits)
  /\ \A i \in DOMAIN txs :
       (Idle /\ txs[i].type = "withdrawal" /\ hist.tx[i].refunded > 0)
         => txs[i].status # "completed"

\* C37: reserving a withdrawal and having an admin reject it is a round trip
\* on the wallet: the rejection gives coins.available what the request took
\* from it and takes the same amount out of coins.pending, and the transaction
\* ends cancelled.
C37_RejectRestoresWallet ==
  [][\A p \in SeqProcs :
       (pc[p] = "rj_refund" /\ pc'[p] = "idle" /\ res'[p] = Ok)
         => /\ user'.available = user.available + hist.tx[loc[p].tx].reserved
            /\ user'.pending = user.pending - hist.tx[loc[p].tx].reserved
            /\ txs'[loc[p].tx].status = "cancelled"]_vars

\* C38: the large-withdrawal surcharge is applied once per transaction: a
\* withdrawal with amount > 1000 and no other risk input has riskScore 30 and
\* is not flagged, however often it has been saved.
C38_SurchargeOnce ==
  \A i \in DOMAIN txs :
    (txs[i].type = "withdrawal" /\ txs[i].amount > LargeWithdrawal)
      => /\ txs[i].riskScore = RiskSurcharge
         /\ ~txs[i].flagged

\* C39: the experience earned from the score of a session is credited once:
\* after endGame and one claimRewards, statistics.experience has grown (from 0)
\* by floor(totalScore / 100) plus the experience bonuses of the achievements.
C39_ExperienceCreditedOnce ==
  (Idle /\ game.claimed /\ Cardinality(RewardTxs) = 1 /\ hist.rewardCredits = 1)
    => user.experience =
         game.totalScore \div ExperienceDiv
           + SumSet(game.achievements, AchievementExperience)

\* C40: session status completed is terminal: no step of pauseGame,
\* resumeGame, abandonGame, endGame, processKeystroke or the sweep changes the
\* status of a completed session, and a session in completed or abandoned
\* never returns to active.
C40_CompletedIsTerminal ==
  [][/\ game.status = "completed" => game'.status = "completed"
     /\ game.status \in {"completed", "abandoned"} => game'.status # "active"]_vars

====
